---- MODULE Spec2Model ----
(***************************************************************************)
(* Model of the publication-enrichment pipeline of ent-research-radar      *)
(* (backend/app/publications.py).                                          *)
(*                                                                         *)
(* Python strings are modelled as sequences of one-character strings, so   *)
(* that the regular-expression based cleaning, the substring tests, the    *)
(* case folding and the lexical comparisons are computed character by      *)
(* character, as the code computes them.  The Python value None is the     *)
(* pseudo-string None below, which differs from every character sequence.  *)
(***************************************************************************)
EXTENDS Integers, Sequences, FiniteSets, TLC

\* ------------------------------------------------------------------------
\* Characters and strings
\* ------------------------------------------------------------------------

None == <<"None">>

UpperLetters == <<"A","B","C","D","E","F","G","H","I","J","K","L","M","N","O","P","Q","R","S","T","U","V","W","X","Y","Z">>
LowerLetters == <<"a","b","c","d","e","f","g","h","i","j","k","l","m","n","o","p","q","r","s","t","u","v","w","x","y","z">>
DigitChars == <<"0","1","2","3","4","5","6","7","8","9">>

Range(s) == {s[i] : i \in 1..Len(s)}

UpperSet == Range(UpperLetters)
LetterSet == UpperSet \cup Range(LowerLetters)
WordChars == LetterSet \cup Range(DigitChars) \cup {"_"}
SpaceChars == {" ", "\n", "\t"}

LowerMap == [c \in UpperSet |-> LowerLetters[CHOOSE i \in 1..Len(UpperLetters) : UpperLetters[i] = c]]

\* str.lower() on one character
LowerChar(c) == IF c \in UpperSet THEN LowerMap[c] ELSE c

\* str.lower()
Lower(s) == [i \in 1..Len(s) |-> LowerChar(s[i])]

\* \s of the re module
IsSpace(c) == c \in SpaceChars

\* \w of the re module
IsWord(c) == c \in WordChars

Min(S) == CHOOSE x \in S : \A y \in S : x <= y
Max(S) == CHOOSE x \in S : \A y \in S : y <= x

\* the characters of s at the positions I, in order
RECURSIVE PickFrom(_, _, _)
PickFrom(s, I, i) ==
    IF i > Len(s) THEN <<>>
    ELSE IF i \in I THEN <<s[i]>> \o PickFrom(s, I, i + 1)
    ELSE PickFrom(s, I, i + 1)

\* str.strip()
Strip(s) ==
    LET idx == {i \in 1..Len(s) : ~IsSpace(s[i])}
    IN IF idx = {} THEN <<>> ELSE SubSeq(s, Min(idx), Max(idx))

\* str.replace(a, b) for single characters
ReplaceChar(s, a, b) == [i \in 1..Len(s) |-> IF s[i] = a THEN b ELSE s[i]]

\* re.sub(r"\s+", " ", s): every maximal run of whitespace becomes one space
CollapseWs(s) ==
    LET t == [i \in 1..Len(s) |-> IF IsSpace(s[i]) THEN " " ELSE s[i]]
    IN PickFrom(t, {i \in 1..Len(s) : ~IsSpace(s[i]) \/ i = 1 \/ ~IsSpace(s[i - 1])}, 1)

\* str.split(): the maximal runs of non-whitespace
RECURSIVE SplitFrom(_, _)
SplitFrom(s, i) ==
    LET starts == {j \in i..Len(s) : ~IsSpace(s[j])}
    IN IF starts = {} THEN <<>>
       ELSE LET b == Min(starts)
                e == Min({j \in b..Len(s) : j = Len(s) \/ IsSpace(s[j + 1])})
            IN <<SubSeq(s, b, e)>> \o SplitFrom(s, e + 1)

Split(s) == SplitFrom(s, 1)

\* the literal tok occurs in s at position i (exact case)
MatchAt(s, i, tok) ==
    /\ i + Len(tok) - 1 <= Len(s)
    /\ s[i] = tok[1]
    /\ \A k \in 2..Len(tok) : s[i + k - 1] = tok[k]

\* the same under re.I, for a lower-case literal
MatchAtI(s, i, tok) ==
    /\ i + Len(tok) - 1 <= Len(s)
    /\ LowerChar(s[i]) = tok[1]
    /\ \A k \in 2..Len(tok) : LowerChar(s[i + k - 1]) = tok[k]

\* \b of the re module, between positions k-1 and k
WordBoundary(s, k) ==
    LET before == k > 1 /\ IsWord(s[k - 1])
        after == k <= Len(s) /\ IsWord(s[k])
    IN before # after

\* \btok\b matches at position i
TokenAt(s, i, tok) ==
    WordBoundary(s, i) /\ MatchAt(s, i, tok) /\ WordBoundary(s, i + Len(tok))

\* \btok\b matches at position i under re.I
TokenAtI(s, i, tok) ==
    WordBoundary(s, i) /\ MatchAtI(s, i, tok) /\ WordBoundary(s, i + Len(tok))

\* `sub in s` on strings
Contains(s, sub) == \E i \in 1..(Len(s) - Len(sub) + 1) : MatchAt(s, i, sub)

\* the characters in code-point order: tab, newline, then printable ASCII
\* (without the double quote, the backslash and the backquote)
CodePointOrder == <<"\t","\n"," ","!","#","$","%","&","'","(",")","*","+",",","-",".","/","0","1","2","3","4","5","6","7","8","9",":",";","<","=",">","?","@","A","B","C","D","E","F","G","H","I","J","K","L","M","N","O","P","Q","R","S","T","U","V","W","X","Y","Z","[","]","^","_","a","b","c","d","e","f","g","h","i","j","k","l","m","n","o","p","q","r","s","t","u","v","w","x","y","z","{","|","}","~">>

CharCode == [c \in Range(CodePointOrder) |->
                CHOOSE i \in 1..Len(CodePointOrder) : CodePointOrder[i] = c]

\* a < b on Python strings: lexical comparison by code point
StrLess(a, b) ==
    \E k \in 1..Len(b) :
        /\ k <= Len(a) + 1
        /\ \A i \in 1..(k - 1) : a[i] = b[i]
        /\ (k = Len(a) + 1 \/ CharCode[a[k]] < CharCode[b[k]])

\* truthiness of an optional string
Truthy(x) == x # None /\ x # <<>>

\* `x or ""`
OrEmpty(x) == IF Truthy(x) THEN x ELSE <<>>

\* ------------------------------------------------------------------------
\* normalize_professor_name and name_variants
\* ------------------------------------------------------------------------

SPECIALTY_WORDS == << <<"o","t","o","l","a","r","y","n","g","o","l","o","g","y">>, <<"e","n","t">>, <<"p","e","d","i","a","t","r","i","c">>, <<"p","e","d","i","a","t","r","i","c","s">> >>

credential_tokens == <<
    <<"m","d">>, <<"d","o">>, <<"p","h","d">>, <<"m","p","h">>, <<"m","s">>, <<"m","s","n">>, <<"m","s","c","r">>, <<"m","s","p","a">>, <<"m","s","p">>,
    <<"a","u","d">>, <<"n","p">>, <<"a","p","r","n">>, <<"p","a">>, <<"p","a","-","c">>, <<"r","n">>, <<"b","s","n">>, <<"f","n","p">>, <<"a","n","p">>,
    <<"c","n","p">>, <<"a","c","n","p">>, <<"a","g","n","p">>, <<"f","a","c","s">>, <<"c","c","c","-","s","l","p">>, <<"f","a","a","p">>, <<"c","n","m">>, <<"d","n","p">>,
    <<"m","b","a">> >>

\* re.sub(r"\([^)]*\)", "", s): from each "(" that has a ")" after it, up to
\* the first such ")"
RECURSIVE DropParens(_, _)
DropParens(s, i) ==
    IF i > Len(s) THEN <<>>
    ELSE LET closing == {j \in (i + 1)..Len(s) : s[j] = ")"}
         IN IF s[i] = "(" /\ closing # {}
            THEN DropParens(s, Min(closing) + 1)
            ELSE <<s[i]>> \o DropParens(s, i + 1)

\* re.split(r"\b(otolaryngology|ent|pediatric|pediatrics)\b", s, flags=re.I)[0]
CutAtSpecialty(s) ==
    LET hits == {i \in 1..Len(s) :
                    /\ WordBoundary(s, i)
                    /\ \E t \in 1..Len(SPECIALTY_WORDS) :
                          /\ MatchAtI(s, i, SPECIALTY_WORDS[t])
                          /\ WordBoundary(s, i + Len(SPECIALTY_WORDS[t]))}
    IN IF hits = {} THEN s ELSE SubSeq(s, 1, Min(hits) - 1)

\* The last position of a match of  ,?\s*\b(tok|...)\b\.?  that starts at i,
\* or 0 when there is none.  The alternatives are tried in their order.
CredentialEnd(s, i) ==
    LET a == IF s[i] = "," THEN i + 1 ELSE i
        rest == {j \in a..Len(s) : ~IsSpace(s[j])}
    IN IF rest = {} THEN 0
       ELSE LET b == Min(rest)
                toks == IF ~WordBoundary(s, b) THEN {}
                        ELSE {t \in 1..Len(credential_tokens) :
                                 /\ MatchAtI(s, b, credential_tokens[t])
                                 /\ WordBoundary(s, b + Len(credential_tokens[t]))}
            IN IF toks = {} THEN 0
               ELSE LET e == b + Len(credential_tokens[Min(toks)])
                    IN IF e <= Len(s) /\ s[e] = "." THEN e ELSE e - 1

\* re.sub of the credential pattern with "": leftmost non-overlapping matches
RECURSIVE DropCredentials(_, _)
DropCredentials(s, i) ==
    IF i > Len(s) THEN <<>>
    ELSE LET e == CredentialEnd(s, i)
         IN IF e > 0 THEN DropCredentials(s, e + 1)
            ELSE <<s[i]>> \o DropCredentials(s, i + 1)

normalize_professor_name(name) ==
    LET c1 == Strip(CollapseWs(ReplaceChar(name, "\n", " ")))
        c2 == DropParens(c1, 1)
        c3 == CutAtSpecialty(c2)
        c4 == DropCredentials(c3, 1)
        c5 == ReplaceChar(c4, ",", " ")
    IN Strip(CollapseWs(c5))

\* the set `variants` built by name_variants
VariantSetNoFullName(cleaned_name) ==
    LET parts == Split(cleaned_name)
    IN IF Len(parts) >= 2
       THEN {parts[1] \o <<" ">> \o parts[Len(parts)],
             parts[Len(parts)] \o <<","," ">> \o parts[1]}
       ELSE {cleaned_name}

VariantSet(cleaned_name) ==
    LET parts == Split(cleaned_name)
    IN {cleaned_name} \cup
       (IF Len(parts) >= 2
        THEN {parts[1] \o <<" ">> \o parts[Len(parts)],
              parts[Len(parts)] \o <<","," ">> \o parts[1]}
        ELSE {})

\* the lists a set can be iterated into (Python fixes no order for a set of
\* strings: the hash seed differs from process to process)
Orderings(S) ==
    {f \in [1..Cardinality(S) -> S] : \A i, j \in 1..Cardinality(S) : i # j => f[i] # f[j]}

\* the lists name_variants may return
name_variants(cleaned_name) ==
    Orderings({v \in VariantSet(cleaned_name) : v # <<>>})

\* ------------------------------------------------------------------------
\* Taxonomy tables
\* ------------------------------------------------------------------------

\* ENT_KEYWORDS: <<phrase, canonical tag>> in declaration order
ENT_KEYWORDS == <<
    << <<"o","t","o","l","o","g","y">>, <<"o","t","o","l","o","g","y">> >>,
    << <<"n","e","u","r","o","t","o","l","o","g","y">>, <<"n","e","u","r","o","t","o","l","o","g","y">> >>,
    << <<"h","e","a","r","i","n","g"," ","l","o","s","s">>, <<"h","e","a","r","i","n","g"," ","l","o","s","s">> >>,
    << <<"h","e","a","r","i","n","g">>, <<"h","e","a","r","i","n","g">> >>,
    << <<"c","o","c","h","l","e","a","r"," ","i","m","p","l","a","n","t">>, <<"c","o","c","h","l","e","a","r"," ","i","m","p","l","a","n","t","s">> >>,
    << <<"c","o","c","h","l","e","a","r"," ","i","m","p","l","a","n","t","s">>, <<"c","o","c","h","l","e","a","r"," ","i","m","p","l","a","n","t","s">> >>,
    << <<"t","i","n","n","i","t","u","s">>, <<"t","i","n","n","i","t","u","s">> >>,
    << <<"v","e","r","t","i","g","o">>, <<"v","e","r","t","i","g","o">> >>,
    << <<"b","a","l","a","n","c","e">>, <<"b","a","l","a","n","c","e">> >>,
    << <<"a","u","d","i","o","l","o","g","y">>, <<"a","u","d","i","o","l","o","g","y">> >>,
    << <<"p","e","d","i","a","t","r","i","c">>, <<"p","e","d","i","a","t","r","i","c"," ","o","t","o","l","a","r","y","n","g","o","l","o","g","y">> >>,
    << <<"o","t","o","l","a","r","y","n","g","o","l","o","g","y">>, <<"o","t","o","l","a","r","y","n","g","o","l","o","g","y">> >>,
    << <<"s","i","n","u","s">>, <<"s","i","n","u","s","i","t","i","s">> >>,
    << <<"r","h","i","n","o","l","o","g","y">>, <<"r","h","i","n","o","l","o","g","y">> >>,
    << <<"n","a","s","a","l">>, <<"n","a","s","a","l"," ","d","i","s","o","r","d","e","r","s">> >>,
    << <<"s","l","e","e","p"," ","a","p","n","e","a">>, <<"s","l","e","e","p"," ","a","p","n","e","a">> >>,
    << <<"s","l","e","e","p">>, <<"s","l","e","e","p"," ","m","e","d","i","c","i","n","e">> >>,
    << <<"l","a","r","y","n","g","o","l","o","g","y">>, <<"l","a","r","y","n","g","o","l","o","g","y">> >>,
    << <<"v","o","i","c","e">>, <<"v","o","i","c","e">> >>,
    << <<"a","i","r","w","a","y">>, <<"a","i","r","w","a","y">> >>,
    << <<"h","e","a","d"," ","a","n","d"," ","n","e","c","k">>, <<"h","e","a","d"," ","a","n","d"," ","n","e","c","k">> >>,
    << <<"o","n","c","o","l","o","g","y">>, <<"o","n","c","o","l","o","g","y">> >>,
    << <<"t","h","y","r","o","i","d">>, <<"t","h","y","r","o","i","d">> >>,
    << <<"p","a","r","a","t","h","y","r","o","i","d">>, <<"p","a","r","a","t","h","y","r","o","i","d">> >>,
    << <<"s","k","u","l","l"," ","b","a","s","e">>, <<"s","k","u","l","l"," ","b","a","s","e">> >>,
    << <<"f","a","c","i","a","l"," ","p","l","a","s","t","i","c">>, <<"f","a","c","i","a","l"," ","p","l","a","s","t","i","c","s">> >>,
    << <<"r","e","c","o","n","s","t","r","u","c","t","i","v","e">>, <<"r","e","c","o","n","s","t","r","u","c","t","i","v","e"," ","s","u","r","g","e","r","y">> >>,
    << <<"a","l","l","e","r","g","y">>, <<"a","l","l","e","r","g","y">> >> >>

ENT_KEYWORD_TERMS == {Lower(ENT_KEYWORDS[k][1]) : k \in 1..Len(ENT_KEYWORDS)}

ENT_CONCEPT_TERMS == {<<"o","t","o","l","a","r","y","n","g","o","l","o","g","y">>, <<"o","t","o","r","h","i","n","o","l","a","r","y","n","g","o","l","o","g","y">>, <<"h","e","a","d"," ","a","n","d"," ","n","e","c","k"," ","s","u","r","g","e","r","y">>, <<"a","u","d","i","o","l","o","g","y">>, <<"h","e","a","r","i","n","g">>, <<"n","e","u","r","o","s","c","i","e","n","c","e","s">>, <<"n","e","u","r","o","l","o","g","y">>, <<"o","n","c","o","l","o","g","y">>, <<"l","a","r","y","n","g","o","l","o","g","y">>, <<"s","i","n","u","s","i","t","i","s">>, <<"s","l","e","e","p"," ","m","e","d","i","c","i","n","e">>}

\* the stop words of normalize_terms
STOP_WORDS == {<<"w","i","t","h">>, <<"f","r","o","m">>, <<"t","h","i","s">>, <<"t","h","a","t">>, <<"i","n","t","o">>, <<"u","s","i","n","g">>, <<"s","t","u","d","y">>, <<"c","a","s","e">>, <<"r","o","l","e">>, <<"p","r","o","f","e","s","s","o","r">>, <<"a","s","s","i","s","t","a","n","t">>, <<"a","s","s","o","c","i","a","t","e">>, <<"d","o","c","t","o","r">>, <<"c","l","i","n","i","c","a","l">>, <<"m","e","d","i","c","i","n","e">>, <<"d","e","p","a","r","t","m","e","n","t">>}

\* ------------------------------------------------------------------------
\* _dedupe_publications and _filter_ent_publications
\* ------------------------------------------------------------------------

\* (pub.get("title") or "").strip().lower()
TitleKey(pub) == Lower(Strip(OrEmpty(pub.title)))

\* the sort key: p.get("published_on") or ""
DateKey(pub) == OrEmpty(pub.published_on)

\* one step of a stable descending sort: x goes after every element whose
\* key is not smaller than its own
InsertDescUnstable(sorted, x) ==
    LET smaller == {i \in 1..Len(sorted) : ~StrLess(DateKey(x), DateKey(sorted[i]))}
        at == IF smaller = {} THEN Len(sorted) + 1 ELSE Min(smaller)
    IN SubSeq(sorted, 1, at - 1) \o <<x>> \o SubSeq(sorted, at, Len(sorted))

InsertDesc(sorted, x) ==
    LET smaller == {i \in 1..Len(sorted) : StrLess(DateKey(sorted[i]), DateKey(x))}
        at == IF smaller = {} THEN Len(sorted) + 1 ELSE Min(smaller)
    IN SubSeq(sorted, 1, at - 1) \o <<x>> \o SubSeq(sorted, at, Len(sorted))

\* list.sort(key=lambda p: p.get("published_on") or "", reverse=True)
RECURSIVE SortByDateDesc(_, _, _)
SortByDateDesc(pubs, i, sorted) ==
    IF i > Len(pubs) THEN sorted
    ELSE SortByDateDesc(pubs, i + 1, InsertDesc(sorted, pubs[i]))

\* the test `not title or title in seen`
DedupeSkipsSeenOnly(title, seen) == title \in seen

DedupeSkips(title, seen) == title = <<>> \/ title \in seen

\* the loop of _dedupe_publications
RECURSIVE DedupeLoop(_, _, _, _)
DedupeLoop(pubs, i, seen, unique) ==
    IF i > Len(pubs) THEN unique
    ELSE LET title == TitleKey(pubs[i])
         IN IF DedupeSkips(title, seen)
            THEN DedupeLoop(pubs, i + 1, seen, unique)
            ELSE DedupeLoop(pubs, i + 1, seen \cup {title}, Append(unique, pubs[i]))

_dedupe_publications(pubs) == SortByDateDesc(DedupeLoop(pubs, 1, {}, <<>>), 1, <<>>)

\* " ".join([title.lower(), abstract.lower()])
FilterText(pub) == Lower(OrEmpty(pub.title)) \o <<" ">> \o Lower(OrEmpty(pub.abstract))

\* any(term in text for term in ENT_KEYWORD_TERMS)
IsEntRelated(pub) == \E term \in ENT_KEYWORD_TERMS : Contains(FilterText(pub), term)

\* the loop of _filter_ent_publications
RECURSIVE FilterLoop(_, _, _)
FilterLoop(pubs, i, filtered) ==
    IF i > Len(pubs) THEN filtered
    ELSE FilterLoop(pubs, i + 1,
                    IF IsEntRelated(pubs[i]) THEN Append(filtered, pubs[i]) ELSE filtered)

\* `filtered or pubs`
FilteredOnly(filtered, pubs) == filtered

FilteredOrAll(filtered, pubs) == IF filtered # <<>> THEN filtered ELSE pubs

_filter_ent_publications(pubs) == FilteredOrAll(FilterLoop(pubs, 1, <<>>), pubs)

\* ------------------------------------------------------------------------
\* derive_tags and normalize_terms
\* ------------------------------------------------------------------------

\* len(re.findall(rf"\b{re.escape(phrase)}\b", s)): non-overlapping matches,
\* leftmost first
RECURSIVE CountToken(_, _, _)
CountToken(s, tok, i) ==
    LET hits == {j \in i..(Len(s) - Len(tok) + 1) : s[j] = tok[1] /\ TokenAt(s, j, tok)}
    IN IF hits = {} THEN 0 ELSE 1 + CountToken(s, tok, Min(hits) + Len(tok))

\* A Counter is a sequence of <<key, count>> in insertion order.
\* counts[key] += n
CounterAdd(counts, key, n) ==
    LET at == {i \in 1..Len(counts) : counts[i][1] = key}
    IN IF at = {} THEN Append(counts, <<key, n>>)
       ELSE [counts EXCEPT ![Min(at)] = <<key, counts[Min(at)][2] + n>>]

\* one step of sorted(..., key=count, reverse=True), which is stable
InsertByCountAfterSmaller(sorted, x) ==
    LET smaller == {i \in 1..Len(sorted) : sorted[i][2] <= x[2]}
        at == IF smaller = {} THEN Len(sorted) + 1 ELSE Min(smaller)
    IN SubSeq(sorted, 1, at - 1) \o <<x>> \o SubSeq(sorted, at, Len(sorted))

InsertByCount(sorted, x) ==
    LET smaller == {i \in 1..Len(sorted) : sorted[i][2] < x[2]}
        at == IF smaller = {} THEN Len(sorted) + 1 ELSE Min(smaller)
    IN SubSeq(sorted, 1, at - 1) \o <<x>> \o SubSeq(sorted, at, Len(sorted))

RECURSIVE SortByCount(_, _, _)
SortByCount(counts, i, sorted) ==
    IF i > Len(counts) THEN sorted
    ELSE SortByCount(counts, i + 1, InsertByCount(sorted, counts[i]))

MAX_TAGS == 10

\* [t for t, _ in counts.most_common(n)]
MostCommon(counts, n) ==
    LET sorted == SortByCount(counts, 1, <<>>)
        m == IF Len(sorted) < n THEN Len(sorted) ELSE n
    IN [i \in 1..m |-> sorted[i][1]]

\* the loop over ENT_KEYWORDS.items() of derive_tags
RECURSIVE KeywordCounts(_, _, _)
KeywordCounts(combined, k, counts) ==
    IF k > Len(ENT_KEYWORDS) THEN counts
    ELSE LET hits == CountToken(combined, ENT_KEYWORDS[k][1], 1)
         IN KeywordCounts(combined, k + 1,
                          IF hits > 0 THEN CounterAdd(counts, ENT_KEYWORDS[k][2], hits)
                          ELSE counts)

\* Counter(tokens)
RECURSIVE CountTokens(_, _, _)
CountTokens(tokens, i, counts) ==
    IF i > Len(tokens) THEN counts
    ELSE CountTokens(tokens, i + 1, CounterAdd(counts, tokens[i], 1))

MIN_TERM_LEN == 3

IsKeptTerm(w) == Len(w) > MIN_TERM_LEN /\ w \notin STOP_WORDS

normalize_terms(text) ==
    LET cleaned == Lower([i \in 1..Len(text) |->
                            IF text[i] \in LetterSet \/ IsSpace(text[i]) THEN text[i] ELSE " "])
    IN SelectSeq(Split(cleaned), IsKeptTerm)

derive_tags(biography) ==
    IF ~Truthy(biography) THEN <<>>
    ELSE LET counts == KeywordCounts(Lower(biography), 1, <<>>)
         IN IF counts # <<>> THEN MostCommon(counts, MAX_TAGS)
            ELSE MostCommon(CountTokens(normalize_terms(biography), 1, <<>>), MAX_TAGS)

\* ------------------------------------------------------------------------
\* Author candidate scoring
\* ------------------------------------------------------------------------

\* INSTITUTION_ALIASES: <<key, aliases>> in declaration order
INSTITUTION_ALIASES == <<
    << <<"n","o","r","t","h","w","e","s","t","e","r","n"," ","u","n","i","v","e","r","s","i","t","y">>, << <<"n","o","r","t","h","w","e","s","t","e","r","n">>, <<"n","o","r","t","h","w","e","s","t","e","r","n"," ","u","n","i","v","e","r","s","i","t","y">>, <<"n","o","r","t","h","w","e","s","t","e","r","n"," ","m","e","d","i","c","i","n","e">>, <<"f","e","i","n","b","e","r","g">> >> >>,
    << <<"u","n","i","v","e","r","s","i","t","y"," ","o","f"," ","c","h","i","c","a","g","o">>, << <<"u","n","i","v","e","r","s","i","t","y"," ","o","f"," ","c","h","i","c","a","g","o">>, <<"u","c","h","i","c","a","g","o">>, <<"u"," ","c","h","i","c","a","g","o">>, <<"u","c","h","i","c","a","g","o"," ","m","e","d","i","c","i","n","e">> >> >>,
    << <<"u","n","i","v","e","r","s","i","t","y"," ","o","f"," ","i","l","l","i","n","o","i","s"," ","c","h","i","c","a","g","o">>, << <<"u","n","i","v","e","r","s","i","t","y"," ","o","f"," ","i","l","l","i","n","o","i","s"," ","c","h","i","c","a","g","o">>, <<"u","i","c">>, <<"i","l","l","i","n","o","i","s"," ","a","t"," ","c","h","i","c","a","g","o">>, <<"i","l","l","i","n","o","i","s"," ","c","h","i","c","a","g","o">> >> >>,
    << <<"r","u","s","h"," ","m","e","d","i","c","a","l"," ","s","c","h","o","o","l">>, << <<"r","u","s","h"," ","m","e","d","i","c","a","l"," ","s","c","h","o","o","l">>, <<"r","u","s","h"," ","u","n","i","v","e","r","s","i","t","y">>, <<"r","u","s","h"," ","u","n","i","v","e","r","s","i","t","y"," ","m","e","d","i","c","a","l"," ","c","e","n","t","e","r">>, <<"r","u","s","h"," ","m","e","d","i","c","a","l"," ","c","o","l","l","e","g","e">> >> >> >>

\* _institution_key
_institution_key(name) ==
    LET normalized == Strip(Lower(name))
        found == {k \in 1..Len(INSTITUTION_ALIASES) :
                     \/ normalized = INSTITUTION_ALIASES[k][1]
                     \/ normalized \in Range(INSTITUTION_ALIASES[k][2])}
    IN IF found = {} THEN normalized ELSE INSTITUTION_ALIASES[Min(found)][1]

\* _institution_aliases: INSTITUTION_ALIASES.get(key, [key])
_institution_aliases(institution) ==
    LET key == _institution_key(institution)
        found == {k \in 1..Len(INSTITUTION_ALIASES) : INSTITUTION_ALIASES[k][1] = key}
    IN IF found = {} THEN <<key>> ELSE INSTITUTION_ALIASES[Min(found)][2]

\* _institution_matches: any(alias in candidate.lower() for alias in aliases)
_institution_matches(candidate, aliases) ==
    \E a \in 1..Len(aliases) : Contains(Lower(candidate), aliases[a])

\* _names_match
_names_match(a, b) ==
    Lower(normalize_professor_name(a)) = Lower(normalize_professor_name(b))

\* the whole token instead of s[0:1]
WholeToken(s) == s

\* s[0:1]
FirstChar(s) == SubSeq(s, 1, 1)

\* Scores are counted in half points: 8 is the code's 4.0, 1 its 0.5.
_name_similarity_score(candidate, target) ==
    LET cand_parts == Split(candidate)
        target_parts == Split(target)
    IN IF cand_parts = <<>> \/ target_parts = <<>> THEN 0
       ELSE IF _names_match(candidate, target) THEN 8
       ELSE IF cand_parts[Len(cand_parts)] = target_parts[Len(target_parts)]
            THEN (IF FirstChar(cand_parts[1]) = FirstChar(target_parts[1]) THEN 6 ELSE 4)
       ELSE IF cand_parts[1] = target_parts[1] THEN 1 ELSE 0

\* _concept_score over the display names of x_concepts, in half points
_concept_score(concepts) ==
    IF concepts = <<>> THEN 0
    ELSE LET names == {Lower(concepts[i]) : i \in {j \in 1..Len(concepts) : Truthy(concepts[j])}}
             hits == Cardinality({n \in names : \E term \in ENT_CONCEPT_TERMS : Contains(n, term)})
         IN IF hits >= 2 THEN 5 ELSE IF hits = 1 THEN 3 ELSE -2

\* the institution part of _score_author_candidate, in half points.  The
\* code reads the key last_known_institution of the candidate, never
\* last_known_institutions.
InstitutionScore(candidate, institution) ==
    IF ~Truthy(institution) THEN 0
    ELSE LET aliases == _institution_aliases(institution)
             last_known == OrEmpty(candidate.last_known_institution)
             inst_hits ==
                 (IF _institution_matches(last_known, aliases) THEN 1 ELSE 0)
                 + (IF \E i \in 1..Len(candidate.affiliations) :
                          _institution_matches(candidate.affiliations[i], aliases)
                    THEN 1 ELSE 0)
         IN 2 * 2 * (IF inst_hits < 1 THEN inst_hits ELSE 1)

\* _score_author_candidate, in half points
_score_author_candidate(candidate, target_name, institution) ==
    _name_similarity_score(normalize_professor_name(OrEmpty(candidate.display_name)), target_name)
    + InstitutionScore(candidate, institution)
    + _concept_score(candidate.x_concepts)
    + (IF candidate.works_count > 10 THEN 1 ELSE 0)
    + (IF candidate.cited_by_count > 200 THEN 1 ELSE 0)

\* `best: dict | None = None`, as a record without any field set
NoCandidate ==
    [id |-> None, display_name |-> None, last_known_institution |-> None,
     last_known_institutions |-> <<>>, affiliations |-> <<>>, x_concepts |-> <<>>,
     works_count |-> 0, cited_by_count |-> 0]

\* `best.get("id") if best else None`
BestId(best) == IF best = NoCandidate THEN None ELSE best.id

\* ------------------------------------------------------------------------
\* Mapping of source records
\* ------------------------------------------------------------------------

\* str(n) for a natural number
RECURSIVE IntToStr(_)
IntToStr(n) ==
    IF n < 10 THEN <<DigitChars[n + 1]>>
    ELSE IntToStr(n \div 10) \o <<DigitChars[(n % 10) + 1]>>

\* the last piece of s.split(sep)
LastAfter(s, sep) ==
    LET at == {i \in 1..(Len(s) - Len(sep) + 1) : MatchAt(s, i, sep)}
    IN IF at = {} THEN s ELSE SubSeq(s, Max(at) + Len(sep), Len(s))

\* _openalex_published_on
_openalex_published_on(item) ==
    IF Truthy(item.publication_date) THEN item.publication_date
    ELSE IF item.publication_year # 0 THEN IntToStr(item.publication_year)
    ELSE None

\* _openalex_link
_openalex_link(item) ==
    IF Truthy(item.doi) THEN <<"h","t","t","p","s",":","/","/","d","o","i",".","o","r","g","/">> \o LastAfter(item.doi, <<"d","o","i",".","o","r","g","/">>)
    ELSE IF Truthy(item.landing_page_url) THEN item.landing_page_url
    ELSE IF Truthy(item.id) THEN <<"h","t","t","p","s",":","/","/","o","p","e","n","a","l","e","x",".","o","r","g","/">> \o LastAfter(item.id, <<"/">>)
    ELSE None

\* the professor's name put last instead of first
WithSubjectLast(names, professor_name) ==
    IF Truthy(professor_name) /\ ~\E i \in 1..Len(names) : _names_match(names[i], professor_name)
    THEN names \o <<professor_name>>
    ELSE names

\* the rule shared by _openalex_coauthors and _co_authors: the listed names,
\* with the professor's name put first when no listed name matches it
WithSubject(names, professor_name) ==
    IF Truthy(professor_name) /\ ~\E i \in 1..Len(names) : _names_match(names[i], professor_name)
    THEN <<professor_name>> \o names
    ELSE names

\* _openalex_coauthors: item.authorships holds each author's display_name
_openalex_coauthors(item, professor_name) ==
    WithSubject(SelectSeq(item.authorships, Truthy), professor_name)

\* the (position, word) pairs of an inverted index, in dictionary order
RECURSIVE IndexTokens(_, _)
IndexTokens(inverted, k) ==
    IF k > Len(inverted) THEN <<>>
    ELSE [i \in 1..Len(inverted[k][2]) |-> <<inverted[k][2][i], inverted[k][1]>>]
         \o IndexTokens(inverted, k + 1)

\* one step of tokens.sort(key=lambda t: t[0]), which is stable
InsertByPosition(sorted, x) ==
    LET later == {i \in 1..Len(sorted) : sorted[i][1] > x[1]}
        at == IF later = {} THEN Len(sorted) + 1 ELSE Min(later)
    IN SubSeq(sorted, 1, at - 1) \o <<x>> \o SubSeq(sorted, at, Len(sorted))

RECURSIVE SortByPosition(_, _, _)
SortByPosition(tokens, i, sorted) ==
    IF i > Len(tokens) THEN sorted
    ELSE SortByPosition(tokens, i + 1, InsertByPosition(sorted, tokens[i]))

\* " ".join(words)
RECURSIVE JoinWords(_, _)
JoinWords(tokens, i) ==
    IF i > Len(tokens) THEN <<>>
    ELSE (IF i > 1 THEN <<" ">> ELSE <<>>) \o tokens[i][2] \o JoinWords(tokens, i + 1)

\* _openalex_abstract: the index is a sequence of <<word, positions>>
_openalex_abstract(item) ==
    IF item.abstract_inverted_index = <<>> THEN None
    ELSE JoinWords(SortByPosition(IndexTokens(item.abstract_inverted_index, 1), 1, <<>>), 1)

\* _map_openalex_work
_map_openalex_work(item, professor_name) ==
    [title |-> item.display_name,
     published_on |-> _openalex_published_on(item),
     link |-> _openalex_link(item),
     co_authors |-> _openalex_coauthors(item, professor_name),
     abstract |-> _openalex_abstract(item)]

\* _first_doi
_first_doi(item) ==
    IF Truthy(item.doi) THEN <<"h","t","t","p","s",":","/","/","d","o","i",".","o","r","g","/">> \o item.doi ELSE None

\* _published_on: the year is looked at first
_published_on(item) ==
    IF item.year # 0 THEN IntToStr(item.year)
    ELSE IF Truthy(item.publicationDate) THEN item.publicationDate
    ELSE IF Truthy(item.date) THEN item.date
    ELSE None

\* _co_authors
_co_authors(item, professor_name) ==
    WithSubject(SelectSeq(item.authors, Truthy), professor_name)

\* the record built per item in _fetch_from_semantic_scholar
MapSemanticPaper(item, professor_name) ==
    [title |-> item.title,
     published_on |-> _published_on(item),
     link |-> IF Truthy(item.url) THEN item.url ELSE _first_doi(item),
     co_authors |-> _co_authors(item, professor_name),
     abstract |-> item.abstract]

\* [_map_openalex_work(item, professor_name) for item in data.get("results", [])]
MapOpenAlexWorks(items, professor_name) ==
    [i \in 1..Len(items) |-> _map_openalex_work(items[i], professor_name)]

\* what _fetch_openalex_works returns for a response
_fetch_openalex_works(items, professor_name) ==
    _dedupe_publications(_filter_ent_publications(MapOpenAlexWorks(items, professor_name)))

\* the results of _fetch_from_semantic_scholar for a response: mapped, then
\* results.sort(key=published_on or "", reverse=True)
SemanticResults(items, professor_name) ==
    SortByDateDesc([i \in 1..Len(items) |-> MapSemanticPaper(items[i], professor_name)], 1, <<>>)

\* `with httpx.Client(...) as client:` entered
Opened(clients) == clients + 1

\* a with block that leaves its client open
LeftOpen(clients) == clients

\* the with block left, by return or by exception: the client is closed
Closed(clients) == clients - 1

\* the last name variant instead of name_options[0]
FallbackNameLast(name_options) == name_options[Len(name_options)]

\* `name_options[0]`, the variant handed to _fetch_from_semantic_scholar
FallbackName(name_options) == name_options[1]

\* `query = f"{cleaned_name} {professor.institution.name}"`
SemanticQuery(name_options, person) ==
    FallbackName(name_options) \o <<" ">> \o person.institution

\* pubs[:limit] for limit >= 0
Untruncated(pubs, limit) == pubs

Truncate(pubs, limit) == SubSeq(pubs, 1, IF Len(pubs) < limit THEN Len(pubs) ELSE limit)

\* ------------------------------------------------------------------------
\* Bounds and inputs
\* ------------------------------------------------------------------------

MaxNamePieces == 3

NamePieces == << <<"J","a","n","e">>, <<" ","A",".">>, <<" ","D","o","e">>, <<","," ","M","D">>, <<" ","(","E","N","T",")">>, <<" ","m","d",".">>,
                 <<"m">>, <<"d">>, <<" ">>, <<"e","n","t">> >>

RECURSIVE Concat(_)
Concat(ss) == IF ss = <<>> THEN <<>> ELSE Head(ss) \o Concat(Tail(ss))

\* every concatenation of at most n of the given pieces
Concatenations(pieces, n) ==
    UNION {{Concat([i \in 1..k |-> pieces[f[i]]]) : f \in [1..k -> 1..Len(pieces)]} :
              k \in 0..n}

RawNames == Concatenations(NamePieces, MaxNamePieces)

MaxPubs == 3

Pub(title, published_on, link, abstract) ==
    [title |-> title, published_on |-> published_on, link |-> link,
     co_authors |-> <<>>, abstract |-> abstract]

\* publication records: titles that differ only in case and whitespace,
\* missing and blank titles, equal and missing dates, relevant and irrelevant text
PubPool == {
    Pub(<<"S","i","n","u","s">>, <<"2","0","2","3">>, <<"a">>, None),
    Pub(<<" ","s","i","n","u","s"," ">>, <<"2","0","2","4">>, <<"b">>, None),
    Pub(<<"K","n","e","e">>, <<"2","0","2","3","-","0","1","-","0","1">>, None, None),
    Pub(<<"k","n","e","e">>, <<"2","0","2","3">>, <<"d">>, <<"V","o","i","c","e">>),
    Pub(None, <<"2","0","2","4">>, None, <<"n","a","s","a","l">>),
    Pub(<<" ">>, None, None, None),
    Pub(<<"H","i","p">>, None, <<"g">>, None),
    Pub(<<"c","o","c","h","l","e","a","r">>, <<"2","0","2","3">>, None, <<"i","m","p","l","a","n","t">>) }

PubLists == UNION {[1..n -> PubPool] : n \in 0..MaxPubs}

MaxBioPieces == 3

BioPieces == <<
    <<"s","p","e","c","i","a","l","i","z","e","s"," ","i","n"," ","c","o","c","h","l","e","a","r"," ","i","m","p","l","a","n","t","s"," ","a","n","d"," ","t","i","n","n","i","t","u","s"," ","m","a","n","a","g","e","m","e","n","t">>,
    <<" ","t","i","n","n","i","t","u","s">>,
    <<" ","s","l","e","e","p"," ","a","p","n","e","a">>,
    <<" ","o","t","o","l","o","g","y"," ","n","e","u","r","o","t","o","l","o","g","y"," ","v","e","r","t","i","g","o"," ","b","a","l","a","n","c","e"," ","a","u","d","i","o","l","o","g","y"," ","r","h","i","n","o","l","o","g","y"," ","a","i","r","w","a","y"," ","o","n","c","o","l","o","g","y"," ","t","h","y","r","o","i","d">>,
    <<" ","a","l","f","a"," ","b","e","t","a"," ","g","a","m","m","a"," ","d","e","l","t","a"," ","e","p","s","i","l","o","n"," ","z","e","t","a"," ","i","o","t","a"," ","k","a","p","p","a"," ","l","a","m","b","d","a"," ","o","m","e","g","a"," ","s","i","g","m","a">>,
    <<" ","s","u","r","g","e","r","y">> >>

Biographies == Concatenations(BioPieces, MaxBioPieces) \cup {None}

MaxLimit == 1
MaxCandidates == 1
MaxItems == 2

ProfessorNames == { <<"J","a","n","e"," ","A","."," ","D","o","e",","," ","M","D">>, <<"D","o","e">>, <<"M","D">> }

Institutions == { None, <<"N","o","r","t","h","w","e","s","t","e","r","n"," ","U","n","i","v","e","r","s","i","t","y">> }

\* a person: professor.name and professor.institution.name (None: no institution)
Professors == [name : ProfessorNames, institution : Institutions]

\* An author of the author search.  The request selects
\* id, display_name, works_count, cited_by_count, last_known_institutions,
\* affiliations, x_concepts: the answer has no key last_known_institution,
\* so candidate.get("last_known_institution") is None.  The institutions
\* are held by their display names.
Candidate(id, display_name, last_known, affiliations, concepts, works, cited) ==
    [id |-> id, display_name |-> display_name, last_known_institution |-> None,
     last_known_institutions |-> last_known,
     affiliations |-> affiliations, x_concepts |-> concepts,
     works_count |-> works, cited_by_count |-> cited]

\* author-search candidates: two that score alike, one weaker with
\* off-topic concepts
CandidatePool == {
    Candidate(<<"A","1">>, <<"J","a","n","e"," ","D","o","e">>, <<>>, << <<"F","e","i","n","b","e","r","g"," ","S","c","h","o","o","l"," ","o","f"," ","M","e","d","i","c","i","n","e">> >>,
              << <<"A","u","d","i","o","l","o","g","y">> >>, 50, 0),
    Candidate(<<"A","2">>, <<"J","a","n","e"," ","D","o","e">>, <<>>, << <<"N","o","r","t","h","w","e","s","t","e","r","n"," ","M","e","d","i","c","i","n","e">> >>,
              << <<"H","e","a","r","i","n","g">> >>, 0, 500),
    Candidate(<<"A","3">>, <<"J","."," ","D","o","e">>, << <<"N","o","r","t","h","w","e","s","t","e","r","n"," ","U","n","i","v","e","r","s","i","t","y">> >>, <<>>,
              << <<"B","o","t","a","n","y">> >>, 0, 0) }

CandidateLists == UNION {[1..n -> CandidatePool] : n \in 0..MaxCandidates}

Work(id, doi, display_name, authorships, year, landing, date, inverted) ==
    [id |-> id, doi |-> doi, display_name |-> display_name, authorships |-> authorships,
     publication_year |-> year, landing_page_url |-> landing, publication_date |-> date,
     abstract_inverted_index |-> inverted]

\* OpenAlex work records: a complete one and one with no field set
\* (publication_year 0: no year)
WorkPool == {
    Work(<<"h","t","t","p","s",":","/","/","o","p","e","n","a","l","e","x",".","o","r","g","/","W","1">>, <<"h","t","t","p","s",":","/","/","d","o","i",".","o","r","g","/","1","0",".","1","/","x">>, <<"S","i","n","u","s">>,
         << <<"J","a","n","e"," ","D","o","e">>, <<"A","."," ","S","m","i","t","h">> >>, 2023, None, <<"2","0","2","3","-","0","5","-","0","1">>,
         << << <<"s","u","r","g","e","r","y">>, <<1>> >>, << <<"s","i","n","u","s">>, <<0>> >> >>),
    Work(None, None, None, <<>>, 0, None, None, <<>>) }

WorkLists == UNION {[1..n -> WorkPool] : n \in 0..MaxItems}

Paper(title, year, publicationDate, url, doi, authors, abstract) ==
    [title |-> title, year |-> year, publicationDate |-> publicationDate, date |-> None,
     url |-> url, doi |-> doi, authors |-> authors, abstract |-> abstract]

\* Semantic Scholar paper records: a complete one and one with no field set
\* (year 0: no year)
PaperPool == {
    Paper(<<"S","i","n","u","s">>, 2023, <<"2","0","2","3","-","0","5","-","0","1">>, <<"h","t","t","p","s",":","/","/","s","2",".","o","r","g","/","p","/","1">>, <<"1","0",".","1","/","x">>,
          << <<"J","a","n","e"," ","D","o","e">> >>, <<"n","a","s","a","l">>),
    Paper(None, 0, None, None, None, <<>>, None) }

PaperLists == UNION {[1..n -> PaperPool] : n \in 0..MaxItems}

MaxAuthors == 2

\* display names of listed authors; None: an author without a name
AuthorNames == { <<"j","a","n","e"," ","a","."," ","d","o","e"," ","P","h","D">>, <<"A","."," ","S","m","i","t","h">>, None }

AuthorLists == UNION {[1..n -> AuthorNames] : n \in 0..MaxAuthors}

\* absent or present value of a key of a source record
Optional(v) == {None, v}

\* OpenAlex work records for the mapping: every combination of id, doi,
\* landing page, year and date, and every author list
WorkRecords ==
    {Work(id, doi, <<"S","i","n","u","s">>, << <<"A","."," ","S","m","i","t","h">> >>, year, landing, date, <<>>) :
        id \in Optional(<<"h","t","t","p","s",":","/","/","o","p","e","n","a","l","e","x",".","o","r","g","/","W","1">>),
        doi \in Optional(<<"h","t","t","p","s",":","/","/","d","o","i",".","o","r","g","/","1","0",".","1","/","x">>),
        year \in {0, 2023},
        landing \in Optional(<<"h","t","t","p","s",":","/","/","j",".","o","r","g","/","a">>),
        date \in Optional(<<"2","0","2","3","-","0","5","-","0","1">>)}
    \cup {Work(<<"h","t","t","p","s",":","/","/","o","p","e","n","a","l","e","x",".","o","r","g","/","W","1">>, None, <<"S","i","n","u","s">>, authors, 2023, None, None, <<>>) :
            authors \in AuthorLists}

\* Semantic Scholar paper records for the mapping
PaperRecords ==
    {Paper(<<"S","i","n","u","s">>, year, date, url, doi, << <<"A","."," ","S","m","i","t","h">> >>, None) :
        year \in {0, 2023},
        date \in Optional(<<"2","0","2","3","-","0","5","-","0","1">>),
        url \in Optional(<<"h","t","t","p","s",":","/","/","s","2",".","o","r","g","/","p","/","1">>),
        doi \in Optional(<<"1","0",".","1","/","x">>)}
    \cup {Paper(<<"S","i","n","u","s">>, 2023, None, None, None, authors, None) : authors \in AuthorLists}

MaxConcepts == 2

ConceptNames == { <<"A","u","d","i","o","l","o","g","y">>, <<"H","e","a","r","i","n","g">>, <<"B","o","t","a","n","y">> }

ConceptLists == UNION {[1..n -> ConceptNames] : n \in 0..MaxConcepts}

\* display names of candidates; None: no display_name
CandidateNames ==
    { None, <<"J","a","n","e"," ","D","o","e">>, <<"j","a","n","e"," ","d","o","e",","," ","M","D">>, <<"J","."," ","D","o","e">>, <<"B","o","b"," ","D","o","e">>, <<"J","a","n","e"," ","R","o","e">> }

\* candidates for scoring: every name with every affiliation profile, and
\* every concept list with either productivity
AuthorRecords ==
    {Candidate(<<"A">>, nm, lk, aff, <<>>, 0, 0) :
        nm \in CandidateNames,
        lk \in {<<>>, << <<"N","o","r","t","h","w","e","s","t","e","r","n"," ","U","n","i","v","e","r","s","i","t","y">> >>},
        aff \in {<<>>, << <<"F","e","i","n","b","e","r","g"," ","S","c","h","o","o","l"," ","o","f"," ","M","e","d","i","c","i","n","e">> >>}}
    \cup {Candidate(<<"A">>, nm, <<>>, <<>>, concepts, prod[1], prod[2]) :
            nm \in {None, <<"J","a","n","e"," ","D","o","e">>},
            concepts \in ConceptLists,
            prod \in {<<0, 0>>, <<50, 500>>}}

\* name variants searched for: those of "Jane A. Doe, MD", and the single
\* variant of "m md.d", which normalizes to "md"
TargetNames == { <<"J","a","n","e"," ","A","."," ","D","o","e">>, <<"J","a","n","e"," ","D","o","e">>, <<"D","o","e",","," ","J","a","n","e">>, <<"m","d">> }

\* data.get("data") of the Semantic Scholar author search (limit 1), as the
\* authorId values of its matches
SemanticMatches == { <<>>, <<None>>, << <<"7","7">> >> }

\* the non-empty name_options fetch_publications can hand over
ResolveNameOptions ==
    UNION {name_variants(normalize_professor_name(n)) : n \in ProfessorNames} \ {<<>>}

\* the confidence threshold `best_score >= 5`, in half points
CONFIDENT_SCORE == 10

\* `if best_score >= 5: break` never taken
NeverConfident(best_score) == FALSE

\* `if best_score >= 5: break`
Confident(best_score) == best_score >= CONFIDENT_SCORE

\* the test `score > best_score`
IsBetterOrEqual(score, best_score) == score >= best_score

IsBetter(score, best_score) == score > best_score

\* `score = _score_author_candidate(candidate, name, institution)` for every
\* candidate of one response, in order, as <<candidate id, score>>
ScoresOf(cands, name, institution) ==
    [i \in 1..Len(cands) |->
        <<cands[i].id, _score_author_candidate(cands[i], name, institution)>>]

\* the loop over data.get("results", []) of _resolve_openalex_author, given
\* the scores of the response: returns <<best, best_score>> after the
\* candidates from position i on
RECURSIVE ScoreCandidates(_, _, _, _, _)
ScoreCandidates(cands, scored, i, best, best_score) ==
    IF i > Len(cands) THEN <<best, best_score>>
    ELSE IF IsBetter(scored[i][2], best_score)
         THEN ScoreCandidates(cands, scored, i + 1, cands[i], scored[i][2])
         ELSE ScoreCandidates(cands, scored, i + 1, best, best_score)

\* ------------------------------------------------------------------------
\* State
\* ------------------------------------------------------------------------

VARIABLES
    n_pc,           \* position of the name-cleaning run
    raw_name,       \* the raw display name
    n_cleaned_name,   \* normalize_professor_name(raw_name)
    cleaned_twice,  \* normalize_professor_name(cleaned_name)
    name_options,   \* name_variants(cleaned_name)
    p_pc,           \* position of the list-processing run
    pubs_in,        \* the list of publication records handed in
    deduped,        \* _dedupe_publications(pubs_in)
    deduped_twice,  \* _dedupe_publications(deduped)
    p_filtered,       \* _filter_ent_publications(pubs_in)
    t_pc,           \* position of the tag-derivation run
    t_biography,      \* the biography text, or None
    tags,           \* derive_tags(publications, biography)
    r_pc,           \* position of the author-resolution run
    r_names,        \* name_options handed to _resolve_openalex_author
    r_institution,  \* the institution hint, or None
    r_k,            \* index of the name variant queried next
    r_best,         \* the local best: a candidate, or NoCandidate
    r_best_score,   \* the local best_score, in half points
    r_scored,       \* every <<candidate id, score>> computed so far, in order
    r_result,       \* what _resolve_openalex_author returned
    r_queries,      \* the author searches sent: <<name variant, best_score after
                    \* the response, in half points (-1: the request raised)>>
    f_pc,           \* position of the fetch_publications run
    offline,        \* the OFFLINE setting
    professor,      \* the person looked up
    f_limit,          \* the limit argument
    f_names,        \* name_options of fetch_publications
    f_k,            \* index of the name variant queried next
    f_best,           \* best of _resolve_openalex_author
    f_best_score,     \* best_score of _resolve_openalex_author, in half points
    author_id,      \* the OpenAlex author id, then the Semantic Scholar one
    open_clients,   \* number of httpx clients open
    calls,          \* the requests sent so far: <<endpoint, argument, answered,
                    \* number of publications its stage handed back>>
    f_pubs,         \* the local pubs of fetch_publications at its return
    outcome,        \* "running", "returned" or "raised"
    result,         \* the list fetch_publications returned
    m_pc,           \* position of the record-mapping run
    m_source,       \* "openalex" or "semantic": the source of the record
    m_item,         \* the source record
    m_subject,      \* professor_name handed to the mapping
    m_pub,          \* the publication record the mapping built
    s_pc,           \* position of the candidate-scoring run
    s_candidate,    \* the author-search candidate
    s_target,       \* target_name: the name variant searched for
    s_institution,  \* the institution hint, or None
    s_name,         \* candidate_name: the normalized display name
    s_name_score,   \* _name_similarity_score(candidate_name, target_name), in half points
    s_inst_score,   \* the institution part of the score, in half points
    s_concept_score,\* _concept_score(x_concepts), in half points
    s_score,        \* _score_author_candidate(...), in half points
    w_pc,           \* position of the _search_openalex_works run
    w_names,        \* name_options handed to _search_openalex_works
    w_answers,      \* the "results" the works endpoint holds for each variant
    w_k,            \* index of the name variant queried next
    w_sent,         \* the name variants searched so far, in order
    w_result,       \* the list _search_openalex_works returned
    u_pc,           \* "open", "committed" or "integrity_error": the session
    u_db,           \* the committed publications rows of the professor
    u_rows,         \* the rows as the session holds them (persistent objects)
    u_pending,      \* the objects added to the session and not flushed
    u_calls,        \* number of upsert_publications calls in the session
    d_exists,       \* whether the professor row exists
    d_offline,      \* the OFFLINE setting
    d_rows,         \* the titles of the professor's committed publications
    d_log           \* one entry for each professor_detail request handled:
                    \* the number of publications it found stored, the
                    \* number of records fetch_publications handed it (-1:
                    \* not called) and how it ended

nameVars == <<n_pc, raw_name, n_cleaned_name, cleaned_twice, name_options>>
pubVars == <<p_pc, pubs_in, deduped, deduped_twice, p_filtered>>
tagVars == <<t_pc, t_biography, tags>>
resolveVars == <<r_pc, r_names, r_institution, r_k, r_best, r_best_score, r_scored, r_result,
                 r_queries>>
fetchVars == <<f_pc, offline, professor, f_limit, f_names, f_k, f_best, f_best_score, author_id,
               open_clients, calls, f_pubs, outcome, result>>

mapVars == <<m_pc, m_source, m_item, m_subject, m_pub>>
scoreVars == <<s_pc, s_candidate, s_target, s_institution, s_name, s_name_score, s_inst_score,
               s_concept_score, s_score>>

searchVars == <<w_pc, w_names, w_answers, w_k, w_sent, w_result>>

upsertVars == <<u_pc, u_db, u_rows, u_pending, u_calls>>

detailVars == <<d_exists, d_offline, d_rows, d_log>>

vars == <<nameVars, pubVars, tagVars, resolveVars, fetchVars, mapVars, scoreVars, searchVars, upsertVars, detailVars>>

NameIdle ==
    /\ n_pc = "idle"
    /\ raw_name = <<>>
    /\ n_cleaned_name = None
    /\ cleaned_twice = None
    /\ name_options = <<>>

PubIdle ==
    /\ p_pc = "idle"
    /\ pubs_in = <<>>
    /\ deduped = <<>>
    /\ deduped_twice = <<>>
    /\ p_filtered = <<>>

TagIdle ==
    /\ t_pc = "idle"
    /\ t_biography = None
    /\ tags = <<>>

ResolveIdle ==
    /\ r_pc = "idle"
    /\ r_names = <<>>
    /\ r_institution = None
    /\ r_k = 0
    /\ r_best = NoCandidate
    /\ r_best_score = 0
    /\ r_scored = <<>>
    /\ r_result = None
    /\ r_queries = <<>>

FetchIdle ==
    /\ f_pc = "idle"
    /\ offline = FALSE
    /\ professor = [name |-> <<>>, institution |-> None]
    /\ f_limit = 0
    /\ f_names = <<>>
    /\ f_k = 0
    /\ f_best = NoCandidate
    /\ f_best_score = 0
    /\ author_id = None
    /\ open_clients = 0
    /\ calls = <<>>
    /\ f_pubs = <<>>
    /\ outcome = "running"
    /\ result = <<>>

MapIdle ==
    /\ m_pc = "idle"
    /\ m_source = "none"
    /\ m_item = None
    /\ m_subject = <<>>
    /\ m_pub = None

ScoreIdle ==
    /\ s_pc = "idle"
    /\ s_candidate = NoCandidate
    /\ s_target = <<>>
    /\ s_institution = None
    /\ s_name = <<>>
    /\ s_name_score = 0
    /\ s_inst_score = 0
    /\ s_concept_score = 0
    /\ s_score = 0

SearchIdle ==
    /\ w_pc = "idle"
    /\ w_names = <<>>
    /\ w_answers = <<>>
    /\ w_k = 0
    /\ w_sent = <<>>
    /\ w_result = <<>>

UpsertIdle ==
    /\ u_pc = "idle"
    /\ u_db = {}
    /\ u_rows = {}
    /\ u_pending = <<>>
    /\ u_calls = 0

DetailIdle ==
    /\ d_exists = FALSE
    /\ d_offline = FALSE
    /\ d_rows = {}
    /\ d_log = <<>>

\* ------------------------------------------------------------------------
\* Name cleaning: normalize a raw name, normalize it again, list its variants
\* ------------------------------------------------------------------------

NameInit ==
    /\ n_pc = "start"
    /\ raw_name \in RawNames
    /\ n_cleaned_name = None
    /\ cleaned_twice = None
    /\ name_options = <<>>
    /\ PubIdle /\ TagIdle /\ ResolveIdle /\ FetchIdle /\ MapIdle /\ ScoreIdle
    /\ SearchIdle /\ UpsertIdle /\ DetailIdle

Normalize ==
    /\ n_pc = "start"
    /\ n_cleaned_name' = normalize_professor_name(raw_name)
    /\ n_pc' = "normalized"
    /\ UNCHANGED <<raw_name, cleaned_twice, name_options, pubVars, tagVars, resolveVars, fetchVars, mapVars, scoreVars, searchVars, upsertVars, detailVars>>

NormalizeAgain ==
    /\ n_pc = "normalized"
    /\ cleaned_twice' = normalize_professor_name(n_cleaned_name)
    /\ n_pc' = "renormalized"
    /\ UNCHANGED <<raw_name, n_cleaned_name, name_options, pubVars, tagVars, resolveVars, fetchVars, mapVars, scoreVars, searchVars, upsertVars, detailVars>>

Variants ==
    /\ n_pc = "normalized"
    /\ name_options' \in name_variants(n_cleaned_name)
    /\ n_pc' = "variants"
    /\ UNCHANGED <<raw_name, n_cleaned_name, cleaned_twice, pubVars, tagVars, resolveVars, fetchVars, mapVars, scoreVars, searchVars, upsertVars, detailVars>>

NameNext == Normalize \/ NormalizeAgain \/ Variants

SpecName == NameInit /\ [][NameNext]_vars

\* ------------------------------------------------------------------------
\* List processing: deduplicate a list, deduplicate the result, filter a list
\* ------------------------------------------------------------------------

PubInit ==
    /\ p_pc = "start"
    /\ pubs_in \in PubLists
    /\ deduped = <<>>
    /\ deduped_twice = <<>>
    /\ p_filtered = <<>>
    /\ NameIdle /\ TagIdle /\ ResolveIdle /\ FetchIdle /\ MapIdle /\ ScoreIdle
    /\ SearchIdle /\ UpsertIdle /\ DetailIdle

Dedupe ==
    /\ p_pc = "start"
    /\ deduped' = _dedupe_publications(pubs_in)
    /\ p_pc' = "deduped"
    /\ UNCHANGED <<pubs_in, deduped_twice, p_filtered, nameVars, tagVars, resolveVars, fetchVars, mapVars, scoreVars, searchVars, upsertVars, detailVars>>

DedupeAgain ==
    /\ p_pc = "deduped"
    /\ deduped_twice' = _dedupe_publications(deduped)
    /\ p_pc' = "rededuped"
    /\ UNCHANGED <<pubs_in, deduped, p_filtered, nameVars, tagVars, resolveVars, fetchVars, mapVars, scoreVars, searchVars, upsertVars, detailVars>>

Filter ==
    /\ p_pc = "start"
    /\ p_filtered' = _filter_ent_publications(pubs_in)
    /\ p_pc' = "filtered"
    /\ UNCHANGED <<pubs_in, deduped, deduped_twice, nameVars, tagVars, resolveVars, fetchVars, mapVars, scoreVars, searchVars, upsertVars, detailVars>>

PubNext == Dedupe \/ DedupeAgain \/ Filter

SpecPubs == PubInit /\ [][PubNext]_vars

\* ------------------------------------------------------------------------
\* Tag derivation
\* ------------------------------------------------------------------------

TagInit ==
    /\ t_pc = "start"
    /\ t_biography \in Biographies
    /\ tags = <<>>
    /\ NameIdle /\ PubIdle /\ ResolveIdle /\ FetchIdle /\ MapIdle /\ ScoreIdle
    /\ SearchIdle /\ UpsertIdle /\ DetailIdle

DeriveTags ==
    /\ t_pc = "start"
    /\ tags' = derive_tags(t_biography)
    /\ t_pc' = "tagged"
    /\ UNCHANGED <<t_biography, nameVars, pubVars, resolveVars, fetchVars, mapVars, scoreVars, searchVars, upsertVars, detailVars>>

TagNext == DeriveTags

SpecTags == TagInit /\ [][TagNext]_vars

\* ------------------------------------------------------------------------
\* _resolve_openalex_author, one action per response to an author search

ResolveInit ==
    /\ r_pc = "query"
    /\ r_names \in ResolveNameOptions
    /\ r_institution \in Institutions
    /\ r_k = 1
    /\ r_best = NoCandidate
    /\ r_best_score = 0
    /\ r_scored = <<>>
    /\ r_result = None
    /\ r_queries = <<>>
    /\ NameIdle /\ PubIdle /\ TagIdle /\ FetchIdle /\ MapIdle /\ ScoreIdle
    /\ SearchIdle /\ UpsertIdle /\ DetailIdle

\* the search for variant r_k answers with candidates
ResolveRespond(cands) ==
    /\ r_pc = "query"
    /\ \E scored \in {ScoresOf(cands, r_names[r_k], r_institution)} :
       \E b \in {ScoreCandidates(cands, scored, 1, r_best, r_best_score)} :
          /\ r_best' = b[1]
          /\ r_best_score' = b[2]
          /\ r_scored' = r_scored \o scored
          /\ r_queries' = Append(r_queries, <<r_names[r_k], b[2]>>)
          /\ IF Confident(b[2]) \/ r_k = Len(r_names)
             THEN /\ r_pc' = "returned"
                  /\ r_result' = BestId(b[1])
                  /\ r_k' = r_k
             ELSE /\ r_k' = r_k + 1
                  /\ UNCHANGED <<r_pc, r_result>>
    /\ UNCHANGED <<r_names, r_institution, nameVars, pubVars, tagVars, fetchVars, mapVars, scoreVars, searchVars, upsertVars, detailVars>>

\* client.get, raise_for_status or resp.json() raises: the exception leaves
\* _resolve_openalex_author
ResolveRaise ==
    /\ r_pc = "query"
    /\ r_pc' = "raised"
    /\ r_queries' = Append(r_queries, <<r_names[r_k], -1>>)
    /\ UNCHANGED <<r_names, r_institution, r_k, r_best, r_best_score, r_scored, r_result,
                   nameVars, pubVars, tagVars, fetchVars, mapVars, scoreVars, searchVars, upsertVars, detailVars>>

ResolveNext ==
    \/ \E cands \in CandidateLists : ResolveRespond(cands)
    \/ ResolveRaise

SpecResolve == ResolveInit /\ [][ResolveNext]_vars

\* ------------------------------------------------------------------------
\* Mapping of one source record to a publication record

MapInit ==
    /\ m_pc = "start"
    /\ \/ m_source = "openalex" /\ m_item \in WorkRecords
       \/ m_source = "semantic" /\ m_item \in PaperRecords
    /\ m_subject \in ProfessorNames
    /\ m_pub = None
    /\ NameIdle /\ PubIdle /\ TagIdle /\ ResolveIdle /\ FetchIdle /\ ScoreIdle
    /\ SearchIdle /\ UpsertIdle /\ DetailIdle

\* _map_openalex_work(item, professor_name)
MapOpenAlexWork ==
    /\ m_pc = "start"
    /\ m_source = "openalex"
    /\ m_pub' = _map_openalex_work(m_item, m_subject)
    /\ m_pc' = "mapped"
    /\ UNCHANGED <<m_source, m_item, m_subject,
                   nameVars, pubVars, tagVars, resolveVars, fetchVars, scoreVars, searchVars, upsertVars, detailVars>>

\* the record _fetch_from_semantic_scholar appends for an item
MapSemanticItem ==
    /\ m_pc = "start"
    /\ m_source = "semantic"
    /\ m_pub' = MapSemanticPaper(m_item, m_subject)
    /\ m_pc' = "mapped"
    /\ UNCHANGED <<m_source, m_item, m_subject,
                   nameVars, pubVars, tagVars, resolveVars, fetchVars, scoreVars, searchVars, upsertVars, detailVars>>

MapNext == MapOpenAlexWork \/ MapSemanticItem

SpecMap == MapInit /\ [][MapNext]_vars

\* ------------------------------------------------------------------------
\* _score_author_candidate for one candidate

ScoreInit ==
    /\ s_pc = "start"
    /\ s_candidate \in AuthorRecords
    /\ s_target \in TargetNames
    /\ s_institution \in Institutions
    /\ s_name = <<>>
    /\ s_name_score = 0
    /\ s_inst_score = 0
    /\ s_concept_score = 0
    /\ s_score = 0
    /\ NameIdle /\ PubIdle /\ TagIdle /\ ResolveIdle /\ FetchIdle /\ MapIdle
    /\ SearchIdle /\ UpsertIdle /\ DetailIdle

\* the parts of the score and their sum
ScoreCandidate ==
    /\ s_pc = "start"
    /\ \E candidate_name \in {normalize_professor_name(OrEmpty(s_candidate.display_name))} :
          /\ s_name' = candidate_name
          /\ s_name_score' = _name_similarity_score(candidate_name, s_target)
    /\ s_inst_score' = InstitutionScore(s_candidate, s_institution)
    /\ s_concept_score' = _concept_score(s_candidate.x_concepts)
    /\ s_score' = _score_author_candidate(s_candidate, s_target, s_institution)
    /\ s_pc' = "scored"
    /\ UNCHANGED <<s_candidate, s_target, s_institution,
                   nameVars, pubVars, tagVars, resolveVars, fetchVars, mapVars, searchVars, upsertVars, detailVars>>

ScoreNext == ScoreCandidate

SpecScore == ScoreInit /\ [][ScoreNext]_vars

\* ------------------------------------------------------------------------
\* fetch_publications, one action per request of either source

Init ==
    /\ f_pc = "start"
    /\ offline \in BOOLEAN
    /\ professor \in Professors
    /\ f_limit \in 0..MaxLimit
    /\ f_names = <<>>
    /\ f_k = 0
    /\ f_best = NoCandidate
    /\ f_best_score = 0
    /\ author_id = None
    /\ open_clients = 0
    /\ calls = <<>>
    /\ f_pubs = <<>>
    /\ outcome = "running"
    /\ result = <<>>
    /\ NameIdle /\ PubIdle /\ TagIdle /\ ResolveIdle /\ MapIdle /\ ScoreIdle
    /\ SearchIdle /\ UpsertIdle /\ DetailIdle

otherVars == <<nameVars, pubVars, tagVars, resolveVars, mapVars, scoreVars, searchVars, upsertVars, detailVars, offline, professor, f_limit>>

\* `return pubs[:limit]`
Return(pubs) ==
    /\ f_pc' = "done"
    /\ outcome' = "returned"
    /\ f_pubs' = pubs
    /\ result' = Truncate(pubs, f_limit)

\* an exception leaves fetch_publications
Raise ==
    /\ f_pc' = "done"
    /\ outcome' = "raised"
    /\ UNCHANGED <<f_pubs, result>>

\* _fetch_from_openalex returns pubs: `if pubs: return pubs[:limit]`, else
\* the fallback source is asked
OpenAlexReturns(pubs) ==
    /\ open_clients' = Closed(open_clients)
    /\ IF pubs # <<>>
       THEN Return(pubs)
       ELSE /\ f_pc' = "lookup"
            /\ UNCHANGED <<f_pubs, outcome, result>>

\* `if OFFLINE: return []`
FetchOffline ==
    /\ f_pc = "start"
    /\ offline
    /\ Return(<<>>)
    /\ UNCHANGED <<f_names, f_k, f_best, f_best_score, author_id, open_clients, calls, otherVars>>

\* `if not name_options: return []`
FetchNoNameOptions ==
    /\ f_pc = "start"
    /\ ~offline
    /\ <<>> \in name_variants(normalize_professor_name(professor.name))
    /\ Return(<<>>)
    /\ UNCHANGED <<f_names, f_k, f_best, f_best_score, author_id, open_clients, calls, otherVars>>

\* _fetch_from_openalex opens its client and _resolve_openalex_author starts
FetchBegin ==
    /\ f_pc = "start"
    /\ ~offline
    /\ \E options \in name_variants(normalize_professor_name(professor.name)) :
          /\ options # <<>>
          /\ f_names' = options
    /\ f_pc' = "authors"
    /\ f_k' = 1
    /\ open_clients' = Opened(open_clients)
    /\ UNCHANGED <<f_best, f_best_score, author_id, calls, f_pubs, outcome, result, otherVars>>

\* the author search raises (transport, status or payload): `except
\* Exception: return []`
AuthorsFail ==
    /\ f_pc = "authors"
    /\ calls' = Append(calls, <<"authors", f_names[f_k], FALSE, 0>>)
    /\ OpenAlexReturns(<<>>)
    /\ UNCHANGED <<f_names, f_k, f_best, f_best_score, author_id, otherVars>>

\* the author search for variant f_k answers with candidates
AuthorsRespond(cands) ==
    /\ f_pc = "authors"
    /\ calls' = Append(calls, <<"authors", f_names[f_k], TRUE, 0>>)
    /\ \E scored \in {ScoresOf(cands, f_names[f_k], professor.institution)} :
       \E b \in {ScoreCandidates(cands, scored, 1, f_best, f_best_score)} :
          /\ f_best' = b[1]
          /\ f_best_score' = b[2]
          /\ IF Confident(b[2]) \/ f_k = Len(f_names)
             THEN /\ author_id' = BestId(b[1])
                  /\ f_pc' = IF Truthy(BestId(b[1])) THEN "works" ELSE "search"
                  /\ f_k' = 1
             ELSE /\ f_k' = f_k + 1
                  /\ UNCHANGED <<f_pc, author_id>>
    /\ UNCHANGED <<f_names, open_clients, f_pubs, outcome, result, otherVars>>

\* the request for the author's works raises
WorksFail ==
    /\ f_pc = "works"
    /\ calls' = Append(calls, <<"works", author_id, FALSE, 0>>)
    /\ OpenAlexReturns(<<>>)
    /\ UNCHANGED <<f_names, f_k, f_best, f_best_score, author_id, otherVars>>

\* the request for the author's works answers: `if pubs: return pubs`, else
\* the text search starts
WorksRespond(items) ==
    /\ f_pc = "works"
    /\ \E pubs \in {_fetch_openalex_works(items, professor.name)} :
          /\ calls' = Append(calls, <<"works", author_id, TRUE, Len(pubs)>>)
          /\ IF pubs # <<>>
             THEN OpenAlexReturns(pubs)
             ELSE /\ f_pc' = "search"
                  /\ UNCHANGED <<open_clients, f_pubs, outcome, result>>
    /\ UNCHANGED <<f_names, f_k, f_best, f_best_score, author_id, otherVars>>

\* a text search raises
SearchFail ==
    /\ f_pc = "search"
    /\ calls' = Append(calls, <<"search", f_names[f_k], FALSE, 0>>)
    /\ OpenAlexReturns(<<>>)
    /\ UNCHANGED <<f_names, f_k, f_best, f_best_score, author_id, otherVars>>

\* the text search for variant f_k answers: `if pubs: return
\* _dedupe_publications(pubs)`, else the next variant, `return []` after the
\* last
SearchRespond(items) ==
    /\ f_pc = "search"
    /\ \E pubs \in {_filter_ent_publications(MapOpenAlexWorks(items, professor.name))} :
          IF pubs # <<>>
          THEN /\ \E unique \in {_dedupe_publications(pubs)} :
                     /\ calls' = Append(calls, <<"search", f_names[f_k], TRUE, Len(unique)>>)
                     /\ OpenAlexReturns(unique)
               /\ UNCHANGED f_k
          ELSE /\ calls' = Append(calls, <<"search", f_names[f_k], TRUE, 0>>)
               /\ IF f_k = Len(f_names)
                  THEN /\ OpenAlexReturns(<<>>)
                       /\ UNCHANGED f_k
                  ELSE /\ f_k' = f_k + 1
                       /\ UNCHANGED <<f_pc, open_clients, f_pubs, outcome, result>>
    /\ UNCHANGED <<f_names, f_best, f_best_score, author_id, otherVars>>

\* _lookup_semantic_author_id reads professor.institution.name of a person
\* without institution: AttributeError, outside every try
LookupWithoutInstitution ==
    /\ f_pc = "lookup"
    /\ professor.institution = None
    /\ Raise
    /\ UNCHANGED <<f_names, f_k, f_best, f_best_score, author_id, open_clients, calls, otherVars>>

\* the Semantic Scholar author search raises inside the try: `return None`,
\* then `if not author_id: return []`
LookupFail ==
    /\ f_pc = "lookup"
    /\ professor.institution # None
    /\ open_clients' = Closed(Opened(open_clients))
    /\ calls' = Append(calls, <<"author/search", SemanticQuery(f_names, professor), FALSE, 0>>)
    /\ Return(<<>>)
    /\ UNCHANGED <<f_names, f_k, f_best, f_best_score, author_id, otherVars>>

\* the author search answers with JSON that is not an object, or whose
\* "data" entry is not an object: data.get / data["data"][0].get raise
\* after the try
LookupMalformed ==
    /\ f_pc = "lookup"
    /\ professor.institution # None
    /\ open_clients' = Closed(Opened(open_clients))
    /\ calls' = Append(calls, <<"author/search", SemanticQuery(f_names, professor), TRUE, 0>>)
    /\ Raise
    /\ UNCHANGED <<f_names, f_k, f_best, f_best_score, author_id, otherVars>>

\* the author search answers; matches is data.get("data") as the sequence
\* of its authorId values
LookupRespond(matches) ==
    /\ f_pc = "lookup"
    /\ professor.institution # None
    /\ open_clients' = Closed(Opened(open_clients))
    /\ calls' = Append(calls, <<"author/search", SemanticQuery(f_names, professor), TRUE, 0>>)
    /\ IF matches # <<>> /\ Truthy(matches[1])
       THEN /\ author_id' = matches[1]
            /\ f_pc' = "papers"
            /\ UNCHANGED <<f_pubs, outcome, result>>
       ELSE /\ Return(<<>>)
            /\ UNCHANGED author_id
    /\ UNCHANGED <<f_names, f_k, f_best, f_best_score, otherVars>>

\* the papers request raises inside the try: `return []`
PapersFail ==
    /\ f_pc = "papers"
    /\ open_clients' = Closed(Opened(open_clients))
    /\ calls' = Append(calls, <<"papers", author_id, FALSE, 0>>)
    /\ Return(<<>>)
    /\ UNCHANGED <<f_names, f_k, f_best, f_best_score, author_id, otherVars>>

\* the papers request answers with JSON that is not an object:
\* data.get("data", []) raises after the try
PapersMalformed ==
    /\ f_pc = "papers"
    /\ open_clients' = Closed(Opened(open_clients))
    /\ calls' = Append(calls, <<"papers", author_id, TRUE, 0>>)
    /\ Raise
    /\ UNCHANGED <<f_names, f_k, f_best, f_best_score, author_id, otherVars>>

\* the papers request answers: mapped, sorted, `return pubs[:limit]`
PapersRespond(items) ==
    /\ f_pc = "papers"
    /\ open_clients' = Closed(Opened(open_clients))
    /\ \E results \in {SemanticResults(items, professor.name)} :
          /\ calls' = Append(calls, <<"papers", author_id, TRUE, Len(results)>>)
          /\ Return(results)
    /\ UNCHANGED <<f_names, f_k, f_best, f_best_score, author_id, otherVars>>

Next ==
    \/ FetchOffline
    \/ FetchNoNameOptions
    \/ FetchBegin
    \/ AuthorsFail
    \/ \E cands \in CandidateLists : AuthorsRespond(cands)
    \/ WorksFail
    \/ \E items \in WorkLists : WorksRespond(items)
    \/ SearchFail
    \/ \E items \in WorkLists : SearchRespond(items)
    \/ LookupWithoutInstitution
    \/ LookupFail
    \/ LookupMalformed
    \/ \E matches \in SemanticMatches : LookupRespond(matches)
    \/ PapersFail
    \/ PapersMalformed
    \/ \E items \in PaperLists : PapersRespond(items)

Spec == Init /\ [][Next]_vars

\* ------------------------------------------------------------------------
\* Properties of name cleaning
\* ------------------------------------------------------------------------

NonBlank(s) == \E i \in 1..Len(s) : ~IsSpace(s[i])

NoDuplicates(q) == \A i, j \in 1..Len(q) : i # j => q[i] # q[j]

\* C5: normalizing an already normalized name returns it unchanged:
\* normalize(normalize(x)) = normalize(x) for every raw name x.
NormalizeIdempotent ==
    n_pc = "renormalized" => cleaned_twice = n_cleaned_name

GoodVariants ==
    /\ name_options # <<>>
    /\ NoDuplicates(name_options)
    /\ n_cleaned_name \in Range(name_options)

FirstWithTitle(key) == Min({k \in 1..Len(pubs_in) : TitleKey(pubs_in[k]) = key})

\* C7: the output of _dedupe_publications has no empty lowercase-trimmed
\* title, its lowercase-trimmed titles are pairwise distinct, and for each
\* distinct title of the input the record kept is its first occurrence.
DedupeKeepsFirstOccurrences ==
    p_pc = "deduped" =>
        /\ \A i \in 1..Len(deduped) : TitleKey(deduped[i]) # <<>>
        /\ \A i, j \in 1..Len(deduped) :
              i # j => TitleKey(deduped[i]) # TitleKey(deduped[j])
        /\ \A k \in 1..Len(pubs_in) :
              TitleKey(pubs_in[k]) # <<>> =>
                  \E i \in 1..Len(deduped) : TitleKey(deduped[i]) = TitleKey(pubs_in[k])
        /\ \A i \in 1..Len(deduped) :
              /\ \E k \in 1..Len(pubs_in) : TitleKey(pubs_in[k]) = TitleKey(deduped[i])
              /\ deduped[i] = pubs_in[FirstWithTitle(TitleKey(deduped[i]))]

DedupeWitness ==
    /\ p_pc = "deduped"
    /\ Len(deduped) = 1
    /\ Len(pubs_in) = 3
    /\ \E i, j \in 1..Len(pubs_in) :
          i < j /\ pubs_in[i] # pubs_in[j] /\ TitleKey(pubs_in[i]) = TitleKey(pubs_in[j])
    /\ \E k \in 1..Len(pubs_in) : pubs_in[k].title = None

\* C8: deduplication is idempotent, dedupe(dedupe(L)) = dedupe(L) as an
\* ordered list; the output is sorted by published_on descending under
\* lexical comparison, absent dates last, equal keys in first-occurrence order.
DedupeIdempotentSorted ==
    p_pc = "rededuped" =>
        /\ deduped_twice = deduped
        /\ \A i, j \in 1..Len(deduped) :
              i < j =>
                  /\ ~StrLess(DateKey(deduped[i]), DateKey(deduped[j]))
                  /\ deduped[i].published_on = None => deduped[j].published_on = None
                  /\ DateKey(deduped[i]) = DateKey(deduped[j]) =>
                        FirstWithTitle(TitleKey(deduped[i])) < FirstWithTitle(TitleKey(deduped[j]))

DedupeSortWitness ==
    /\ p_pc = "rededuped"
    /\ Len(deduped) = 3
    /\ pubs_in[1].published_on = None
    /\ deduped[1].published_on # None
    /\ DateKey(deduped[1]) = DateKey(deduped[2])

\* C9: _filter_ent_publications(L) is empty only if L is empty; it returns the
\* records of L whose lowercased title and abstract contain a taxonomy term,
\* in their original order, and L unchanged when no record qualifies.
FilterKeepsRelevantOrAll ==
    p_pc = "filtered" =>
        /\ p_filtered = <<>> => pubs_in = <<>>
        /\ IF \E k \in 1..Len(pubs_in) : IsEntRelated(pubs_in[k])
           THEN p_filtered = SelectSeq(pubs_in, IsEntRelated)
           ELSE p_filtered = pubs_in

FilterWitness ==
    /\ p_pc = "filtered"
    /\ Len(pubs_in) = 3
    /\ Len(p_filtered) = 2
    /\ ~IsEntRelated(pubs_in[2])

\* ------------------------------------------------------------------------
\* Properties of tag derivation
\* ------------------------------------------------------------------------

CanonicalTags == {ENT_KEYWORDS[k][2] : k \in 1..Len(ENT_KEYWORDS)}

\* the declaration position of a canonical tag
DeclIndex(c) == Min({k \in 1..Len(ENT_KEYWORDS) : ENT_KEYWORDS[k][2] = c})

\* whole-word occurrences in text of the phrases of canonical tag c
RECURSIVE OccurrencesFrom(_, _, _)
OccurrencesFrom(text, c, k) ==
    IF k > Len(ENT_KEYWORDS) THEN 0
    ELSE (IF ENT_KEYWORDS[k][2] = c THEN CountToken(text, ENT_KEYWORDS[k][1], 1) ELSE 0)
         + OccurrencesFrom(text, c, k + 1)

ScenarioBiography == <<"s","p","e","c","i","a","l","i","z","e","s"," ","i","n"," ","c","o","c","h","l","e","a","r"," ","i","m","p","l","a","n","t","s"," ","a","n","d"," ","t","i","n","n","i","t","u","s"," ","m","a","n","a","g","e","m","e","n","t">>

\* C10: derive_tags returns no tag when the biography is absent and at most
\* 10 tags otherwise; when a taxonomy phrase matches, the tags are canonical
\* tags by descending occurrence count, ties in taxonomy declaration order
\* (the scenario biography yields cochlear implants, then tinnitus).
TagsBoundedAndRanked ==
    t_pc = "tagged" =>
        /\ t_biography = None => tags = <<>>
        /\ Len(tags) <= 10
        /\ t_biography = ScenarioBiography => tags = << <<"c","o","c","h","l","e","a","r"," ","i","m","p","l","a","n","t","s">>, <<"t","i","n","n","i","t","u","s">> >>
        /\ t_biography # None =>
              LET count == [c \in CanonicalTags |-> OccurrencesFrom(Lower(t_biography), c, 1)]
                  matched == {c \in CanonicalTags : count[c] > 0}
                  Outranks(a, b) ==
                      \/ count[a] > count[b]
                      \/ count[a] = count[b] /\ DeclIndex(a) < DeclIndex(b)
              IN matched # {} =>
                    /\ Range(tags) \subseteq matched
                    /\ \A i, j \in 1..Len(tags) : i < j => Outranks(tags[i], tags[j])
                    /\ \A c \in matched \ Range(tags) :
                          Len(tags) = 10 /\ \A i \in 1..Len(tags) : Outranks(tags[i], c)

TagsWitness ==
    /\ t_pc = "tagged"
    /\ Len(tags) = 10
    /\ t_biography # None
    /\ Cardinality({c \in CanonicalTags : OccurrencesFrom(Lower(t_biography), c, 1) > 0}) > 10
    /\ \E i \in 1..9 : OccurrencesFrom(Lower(t_biography), tags[i], 1)
                         = OccurrencesFrom(Lower(t_biography), tags[i + 1], 1)

\* ------------------------------------------------------------------------
\* fetch_publications and _resolve_openalex_author: properties
\* ------------------------------------------------------------------------

\* C1: for every person, with or without an institution, and every
\* behaviour of the two sources at any request, fetch_publications returns
\* a list and never lets an exception reach its caller.
FetchNeverRaises == outcome # "raised"

\* C2: for every person and every limit >= 0, the sequence
\* fetch_publications returns has at most limit entries, whichever source
\* (author works, text search, fallback source) produced it.
ResultWithinLimit ==
    outcome = "returned" =>
        /\ Len(result) <= f_limit
        /\ result = SubSeq(f_pubs, 1, Len(result))
        /\ Len(result) < f_limit => result = f_pubs

\* the fallback source delivered more than the limit and the list was cut
TruncatedWitness ==
    /\ outcome = "returned"
    /\ calls # <<>> /\ calls[Len(calls)][1] = "papers"
    /\ f_limit > 0
    /\ Len(f_pubs) > f_limit
    /\ Len(result) = f_limit

\* C3: every list fetch_publications returns, the fallback source's
\* included, holds only records with a non-empty title, and the
\* lower-cased trimmed titles are pairwise distinct.
ReturnedTitlesDistinct ==
    outcome = "returned" =>
        /\ \A i \in 1..Len(result) : Truthy(result[i].title)
        /\ \A i, j \in 1..Len(result) :
              i # j => TitleKey(result[i]) # TitleKey(result[j])

\* the largest score computed, and the first position where it occurs
TopScore(scored) == Max({scored[i][2] : i \in 1..Len(scored)})
FirstTop(scored) == Min({i \in 1..Len(scored) : scored[i][2] = TopScore(scored)})

\* C4: _resolve_openalex_author returns the identifier of a candidate whose
\* score is the largest among all candidates scored over the variants it
\* queried, the earliest-seen one on a tie; it returns none exactly when no
\* candidate was returned or every candidate scored <= 0.
ResolveReturnsBest ==
    r_pc = "returned" =>
        IF r_scored = <<>> \/ TopScore(r_scored) <= 0
        THEN r_result = None
        ELSE /\ r_result # None
             /\ r_result = r_scored[FirstTop(r_scored)][1]

\* a second variant was queried and two different candidates tie for the
\* largest score
ResolveTieWitness ==
    /\ r_pc = "returned"
    /\ r_k > 1
    /\ r_scored # <<>> /\ TopScore(r_scored) > 0
    /\ \E j \in 1..Len(r_scored) :
          /\ j > FirstTop(r_scored)
          /\ r_scored[j][2] = TopScore(r_scored)
          /\ r_scored[j][1] # r_scored[FirstTop(r_scored)][1]
    /\ r_result = r_scored[FirstTop(r_scored)][1]

\* ------------------------------------------------------------------------
\* Properties of the mapping of source records
\* ------------------------------------------------------------------------

FromOpenAlex == m_source = "openalex"

\* the author names the record lists, in source order
ListedAuthors ==
    SelectSeq(IF FromOpenAlex THEN m_item.authorships ELSE m_item.authors, Truthy)

SubjectListed ==
    \E i \in 1..Len(ListedAuthors) :
        Lower(normalize_professor_name(ListedAuthors[i])) = Lower(normalize_professor_name(m_subject))

\* C11: for a record of either source and a non-empty subject name,
\* co_authors is the subject followed by the listed authors in source order
\* when no listed author equals the subject under normalized,
\* case-insensitive comparison, and exactly the listed authors when one does.
CoAuthorsIncludeSubjectOnce ==
    m_pc = "mapped" /\ m_subject # <<>> =>
        m_pub.co_authors = IF SubjectListed THEN ListedAuthors ELSE <<m_subject>> \o ListedAuthors

\* a listed author matches the subject only after normalization, next to
\* another author, and the subject is not added
CoAuthorsWitness ==
    /\ m_pc = "mapped"
    /\ m_source = "semantic"
    /\ Len(ListedAuthors) = 2
    /\ SubjectListed
    /\ \A i \in 1..Len(ListedAuthors) : ListedAuthors[i] # m_subject
    /\ m_pub.co_authors = ListedAuthors

\* the record's full publication date and bare year (0: none)
FullDate == IF FromOpenAlex THEN m_item.publication_date ELSE m_item.publicationDate

BareYear == IF FromOpenAlex THEN m_item.publication_year ELSE m_item.year

\* C12: for a record of either source, published_on is the full publication
\* date when the record has one, else the year as a string when it has one,
\* else absent.
PublishedOnPrefersFullDate ==
    m_pc = "mapped" =>
        m_pub.published_on =
            IF Truthy(FullDate) THEN FullDate
            ELSE IF BareYear # 0 THEN IntToStr(BareYear)
            ELSE None

\* the DOI resolver URL of the record's DOI
DoiUrl ==
    IF FromOpenAlex THEN <<"h","t","t","p","s",":","/","/","d","o","i",".","o","r","g","/">> \o LastAfter(m_item.doi, <<"d","o","i",".","o","r","g","/">>)
    ELSE <<"h","t","t","p","s",":","/","/","d","o","i",".","o","r","g","/">> \o m_item.doi

\* the landing-page URL of an OpenAlex record, the record URL of a Semantic
\* Scholar one
PageUrl == IF FromOpenAlex THEN m_item.landing_page_url ELSE m_item.url

\* the URL built from the source's own identifier; the Semantic Scholar
\* mapping reads none
IdentifierUrl ==
    IF FromOpenAlex /\ Truthy(m_item.id)
    THEN <<"h","t","t","p","s",":","/","/","o","p","e","n","a","l","e","x",".","o","r","g","/">> \o LastAfter(m_item.id, <<"/">>)
    ELSE None

\* C13: for a record of either source, link is the DOI resolver URL whenever
\* the record has a DOI, else the landing-page or record URL, else the
\* identifier URL, and absent only when none of these exists.
LinkPrefersDoi ==
    m_pc = "mapped" =>
        m_pub.link =
            IF Truthy(m_item.doi) THEN DoiUrl
            ELSE IF Truthy(PageUrl) THEN PageUrl
            ELSE IdentifierUrl

\* ------------------------------------------------------------------------
\* Properties of the chain of sources
\* ------------------------------------------------------------------------

\* the request sent after request i, or the stage the run stands at
StageAfter(i) == IF i < Len(calls) THEN calls[i + 1][1] ELSE f_pc

\* C14: when the author search or the author-works request fails, the
\* primary text search is the next stage contacted, before the fallback
\* source; a failure never makes the run skip it.
FailureFallsToTextSearch ==
    \A i \in 1..Len(calls) :
        calls[i][1] \in {"authors", "works"} /\ ~calls[i][3] => StageAfter(i) = "search"

\* position of an endpoint in the chain: author resolution, author works,
\* primary text search, fallback source
StageRank(endpoint) ==
    CASE endpoint = "authors" -> 1
      [] endpoint = "works" -> 2
      [] endpoint = "search" -> 3
      [] endpoint \in {"author/search", "papers"} -> 4

FallbackQueries == {i \in 1..Len(calls) : calls[i][1] = "author/search"}

\* C15: the requests of a run go out in the order author resolution, author
\* works, primary text search, fallback source; a stage that hands back a
\* non-empty list ends the run with that list cut to limit; the fallback
\* source is asked only after the primary source handed back nothing, and
\* with name_options[0] only.
StagesInOrder ==
    /\ calls # <<>> => calls[1][1] = "authors"
    /\ \A i, j \in 1..Len(calls) : i < j => StageRank(calls[i][1]) <= StageRank(calls[j][1])
    /\ \A i \in 1..Len(calls) :
          calls[i][4] > 0 =>
              /\ i = Len(calls)
              /\ outcome = "returned"
              /\ Len(f_pubs) = calls[i][4]
              /\ result = SubSeq(f_pubs, 1, Min({f_limit, Len(f_pubs)}))
    /\ \A i \in 1..Len(calls) :
          StageRank(calls[i][1]) = 4 => \A j \in 1..(i - 1) : calls[j][4] = 0
    /\ Cardinality(FallbackQueries) <= 1
    /\ \A i \in FallbackQueries :
          calls[i][2] = f_names[1] \o <<" ">> \o professor.institution

\* the author's works come back empty, a text search hands back a list and
\* the run ends with it
StagesWitness ==
    /\ outcome = "returned"
    /\ result # <<>>
    /\ Len(f_names) > 1
    /\ \E i \in 1..Len(calls) : calls[i][1] = "works" /\ calls[i][3]
    /\ calls[Len(calls)][1] = "search"
    /\ calls[Len(calls)][4] > 0

\* C16: _resolve_openalex_author returns a candidate's id only if the
\* candidate's score reaches the threshold 5; when the best score over all
\* variants is below 5 it returns None.
AcceptedOnlyAboveThreshold ==
    r_pc = "returned" =>
        IF r_best_score >= CONFIDENT_SCORE THEN r_result # None ELSE r_result = None

\* C17: the author searches go out one per name variant, in the order of
\* name_options; no search follows a response after which the best score is
\* at least 5, and while it is below 5 every remaining variant is searched.
VariantsQueriedUntilConfident ==
    /\ Len(r_queries) <= Len(r_names)
    /\ \A i \in 1..Len(r_queries) : r_queries[i][1] = r_names[i]
    /\ \A i \in 1..(Len(r_queries) - 1) :
          r_queries[i][2] >= 0 /\ r_queries[i][2] < CONFIDENT_SCORE
    /\ r_pc = "query" => Len(r_queries) = r_k - 1
    /\ r_pc = "returned" =>
          \/ r_queries[Len(r_queries)][2] >= CONFIDENT_SCORE
          \/ Len(r_queries) = Len(r_names)

\* the second of three variants brings the best score to 5 or more and the
\* third is not searched
EarlyStopWitness ==
    /\ r_pc = "returned"
    /\ Len(r_names) = 3
    /\ Len(r_queries) = 2
    /\ r_queries[1][2] < CONFIDENT_SCORE
    /\ r_queries[2][2] >= CONFIDENT_SCORE

\* ------------------------------------------------------------------------
\* Properties of the candidate score
\* ------------------------------------------------------------------------

CandidateTokens == Split(s_name)

TargetTokens == Split(s_target)

ExactMatch == Lower(normalize_professor_name(s_name)) = Lower(normalize_professor_name(s_target))

SameLastToken ==
    /\ CandidateTokens # <<>> /\ TargetTokens # <<>>
    /\ CandidateTokens[Len(CandidateTokens)] = TargetTokens[Len(TargetTokens)]

SameFirstInitial == SubSeq(CandidateTokens[1], 1, 1) = SubSeq(TargetTokens[1], 1, 1)

SameFirstToken ==
    /\ CandidateTokens # <<>> /\ TargetTokens # <<>>
    /\ CandidateTokens[1] = TargetTokens[1]

\* the name-similarity rule, in half points
RuleScore ==
    IF ExactMatch THEN 8
    ELSE IF SameLastToken THEN (IF SameFirstInitial THEN 6 ELSE 4)
    ELSE IF SameFirstToken THEN 1
    ELSE 0

KnownAffiliations ==
    Range(s_candidate.last_known_institutions) \cup Range(s_candidate.affiliations)

AliasHit ==
    /\ Truthy(s_institution)
    /\ \E affiliation \in KnownAffiliations :
          \E alias \in Range(_institution_aliases(s_institution)) :
              Contains(Lower(affiliation), alias)

\* C19: the institution sub-score is 2 exactly when one of the candidate's
\* last-known institutions or affiliations contains an alias of the hint
\* institution, else 0; a candidate with the same last token, the same first
\* initial, an alias hit and nothing else scores 5.
InstitutionScoreOnAliasHit ==
    s_pc = "scored" =>
        /\ s_inst_score = IF AliasHit THEN 4 ELSE 0
        /\ ( /\ AliasHit
             /\ s_name_score = 6
             /\ s_candidate.x_concepts = <<>>
             /\ s_candidate.works_count = 0
             /\ s_candidate.cited_by_count = 0 ) => s_score = 10

\* C20: the score of every candidate is non-negative.
ScoreNonNegative == s_pc = "scored" => s_score >= 0

\* ------------------------------------------------------------------------
\* Properties of the order of the name variants
\* ------------------------------------------------------------------------

\* the cleaned name, then "first last", then "last, first", each once
MostSpecificFirst ==
    LET parts == Split(n_cleaned_name)
        first_last == parts[1] \o <<" ">> \o parts[Len(parts)]
        last_first == parts[Len(parts)] \o <<",", " ">> \o parts[1]
    IN IF n_cleaned_name = <<>> THEN <<>>
       ELSE IF Len(parts) < 2 THEN <<n_cleaned_name>>
       ELSE IF first_last = n_cleaned_name THEN <<n_cleaned_name, last_first>>
       ELSE <<n_cleaned_name, first_last, last_first>>

\* C21: name_variants returns the variants in one fixed order, the cleaned
\* name first, then "first last", then "last, first"; the first element,
\* handed to the fallback source, is the cleaned name.
VariantsMostSpecificFirst ==
    n_pc = "variants" => name_options = MostSpecificFirst

\* ------------------------------------------------------------------------
\* Properties of the network clients
\* ------------------------------------------------------------------------

SearchNames == { <<"J","a","n","e"," ","D","o","e">>, <<"D","o","e">> }

\* name_options as fetch_publications hands them over
SearchNameOptions == UNION {name_variants(n) : n \in SearchNames}

\* professor_name
SearchSubject == <<"J","a","n","e"," ","D","o","e">>

SearchInit ==
    /\ w_pc = "search"
    /\ w_names \in SearchNameOptions
    /\ w_answers \in [1..Len(w_names) -> WorkLists]
    /\ w_k = 1
    /\ w_sent = <<>>
    /\ w_result = <<>>
    /\ NameIdle /\ PubIdle /\ TagIdle /\ ResolveIdle /\ FetchIdle /\ MapIdle /\ ScoreIdle
    /\ UpsertIdle /\ DetailIdle

\* the request for variant w_k answers: the records are mapped and
\* filtered, `if pubs: return _dedupe_publications(pubs)`, else the next
\* variant, `return []` after the last
SearchAnswer ==
    /\ w_pc = "search"
    /\ w_sent' = Append(w_sent, w_names[w_k])
    /\ \E pubs \in {_filter_ent_publications(MapOpenAlexWorks(w_answers[w_k], SearchSubject))} :
          IF pubs # <<>>
          THEN /\ w_result' = _dedupe_publications(pubs)
               /\ w_pc' = "returned"
               /\ UNCHANGED w_k
          ELSE IF w_k = Len(w_names)
          THEN /\ w_result' = <<>>
               /\ w_pc' = "returned"
               /\ UNCHANGED w_k
          ELSE /\ w_k' = w_k + 1
               /\ UNCHANGED <<w_pc, w_result>>
    /\ UNCHANGED <<w_names, w_answers, nameVars, pubVars, tagVars, resolveVars, fetchVars,
                   mapVars, scoreVars, upsertVars, detailVars>>

\* client.get, raise_for_status or resp.json raises: the exception leaves
\* _search_openalex_works
SearchRaise ==
    /\ w_pc = "search"
    /\ w_sent' = Append(w_sent, w_names[w_k])
    /\ w_pc' = "raised"
    /\ UNCHANGED <<w_names, w_answers, w_k, w_result, nameVars, pubVars, tagVars, resolveVars,
                   fetchVars, mapVars, scoreVars, upsertVars, detailVars>>

SearchNext == SearchAnswer \/ SearchRaise

SpecSearch == SearchInit /\ [][SearchNext]_vars

\* the response holds a record with a non-empty title
HasTitle(items) == \E i \in 1..Len(items) : Truthy(items[i].display_name)

\* C23: the text search tries the name variants in order until one yields
\* a usable result: when the response for some variant holds a record with
\* a non-empty title, the search returns a non-empty list, also when an
\* earlier variant's response held only records without title.
SearchFindsUsableVariant ==
    w_pc = "returned" /\ (\E k \in 1..Len(w_names) : HasTitle(w_answers[k]))
        => w_result # <<>>

\* ------------------------------------------------------------------------
\* upsert_publications in a session of get_session
\* ------------------------------------------------------------------------

MaxBatch == 2

MaxUpserts == 2

\* pub.get("title") and pub.get("link") of a fetched record
UpsertTitles == { None, <<"A">>, <<"B">> }

UpsertLinks == { <<"u","1">>, <<"u","2">> }

UpsertRecords == [title : UpsertTitles, link : UpsertLinks]

\* the publications argument
UpsertBatches == UNION {[1..n -> UpsertRecords] : n \in 0..MaxBatch}

\* the publications table of one professor when the session opens: the
\* unique constraint holds
StoredRows == { {}, {[title |-> <<"A">>, link |-> <<"u","1">>]} }

\* session.scalar(select(Publication).where(professor_id, title)): the
\* session does not autoflush, so the statement sees the table's rows only
Existing(rows, title) == {row \in rows : row.title = title}

\* the loop of upsert_publications over publications[i..]: a record without
\* title is skipped, a found row takes the record's link, otherwise a new
\* object is added to the session
RECURSIVE UpsertLoop(_, _, _, _)
UpsertLoop(publications, i, rows, pending) ==
    IF i > Len(publications) THEN [rows |-> rows, pending |-> pending]
    ELSE LET pub == publications[i]
             existing == Existing(rows, pub.title)
         IN IF ~Truthy(pub.title)
            THEN UpsertLoop(publications, i + 1, rows, pending)
            ELSE IF existing # {}
            THEN UpsertLoop(publications, i + 1,
                            (rows \ existing) \cup {[title |-> pub.title, link |-> pub.link]},
                            pending)
            ELSE UpsertLoop(publications, i + 1, rows,
                            Append(pending, [title |-> pub.title, link |-> pub.link]))

upsert_publications(rows, pending, publications) == UpsertLoop(publications, 1, rows, pending)

\* UniqueConstraint("professor_id", "title") over the rows of the table and
\* the rows the flush inserts
UniqueConstraintHolds(rows, pending) ==
    /\ \A i, j \in 1..Len(pending) : pending[i].title = pending[j].title => i = j
    /\ \A i \in 1..Len(pending) : Existing(rows, pending[i].title) = {}

UpsertInit ==
    /\ u_pc = "open"
    /\ u_db \in StoredRows
    /\ u_rows = u_db
    /\ u_pending = <<>>
    /\ u_calls = 0
    /\ NameIdle /\ PubIdle /\ TagIdle /\ ResolveIdle /\ FetchIdle /\ MapIdle /\ ScoreIdle
    /\ SearchIdle /\ DetailIdle

\* SessionLocal(): the next session, on the committed table
OpenSession ==
    /\ u_pc \in {"committed", "integrity_error"}
    /\ u_pc' = "open"
    /\ u_rows' = u_db
    /\ u_pending' = <<>>
    /\ u_calls' = 0
    /\ UNCHANGED <<u_db, nameVars, pubVars, tagVars, resolveVars, fetchVars, mapVars, scoreVars,
                   searchVars, detailVars>>

\* one call of upsert_publications
Upsert(publications) ==
    /\ u_pc = "open"
    /\ u_calls < MaxUpserts
    /\ \E after \in {upsert_publications(u_rows, u_pending, publications)} :
          /\ u_rows' = after.rows
          /\ u_pending' = after.pending
    /\ u_calls' = u_calls + 1
    /\ UNCHANGED <<u_pc, u_db, nameVars, pubVars, tagVars, resolveVars, fetchVars, mapVars,
                   scoreVars, searchVars, detailVars>>

\* session.commit() of get_session: the flush writes the changed rows and
\* inserts the added objects
CommitStores ==
    /\ u_pc = "open"
    /\ UniqueConstraintHolds(u_rows, u_pending)
    /\ u_db' = u_rows \cup Range(u_pending)
    /\ u_rows' = u_db'
    /\ u_pending' = <<>>
    /\ u_pc' = "committed"
    /\ UNCHANGED <<u_calls, nameVars, pubVars, tagVars, resolveVars, fetchVars, mapVars,
                   scoreVars, searchVars, detailVars>>

\* session.commit() of get_session: an insert breaks the unique constraint,
\* IntegrityError, session.rollback(), raise
CommitFails ==
    /\ u_pc = "open"
    /\ ~UniqueConstraintHolds(u_rows, u_pending)
    /\ u_rows' = u_db
    /\ u_pending' = <<>>
    /\ u_pc' = "integrity_error"
    /\ UNCHANGED <<u_db, u_calls, nameVars, pubVars, tagVars, resolveVars, fetchVars, mapVars,
                   scoreVars, searchVars, detailVars>>

UpsertNext ==
    \/ OpenSession
    \/ \E publications \in UpsertBatches : Upsert(publications)
    \/ CommitStores
    \/ CommitFails

SpecUpsert == UpsertInit /\ [][UpsertNext]_vars

\* C24: after any sequence of upsert_publications calls in a session, a
\* batch that holds a title twice included, the session holds at most one
\* Publication per title of the professor, and the commit never breaks the
\* unique constraint on (professor_id, title).
OnePublicationPerTitle ==
    /\ UniqueConstraintHolds(u_rows, u_pending)
    /\ u_pc # "integrity_error"

\* ------------------------------------------------------------------------
\* professor_detail: the request handler and its session
\* ------------------------------------------------------------------------

MaxStored == 21

MaxRequests == 2

\* `len(pubs) < 20`
REFRESH_MIN == 20

\* fetch_publications(prof, limit=20)
FETCH_LIMIT == 20

\* the attributes of the mapped class Publication
PublicationAttributes ==
    {"id", "professor_id", "title", "published_on", "link", "co_authors", "created_at",
     "professor"}

\* the attributes of the mapped class Professor
ProfessorAttributes ==
    {"id", "name", "email", "profile_url", "institution_id", "h_index", "has_lab",
     "last_refreshed_at", "created_at", "institution", "tags", "publications",
     "collaborators"}

\* the stored publications of the professor, held by numbered titles
StoredTitles == {1..n : n \in 0..MaxStored}

\* what fetch_publications(prof, limit=20) can hand back: at most limit
\* records, with different titles
FetchedTitles == {1..n : n \in 0..FETCH_LIMIT}

\* `not pubs or len(pubs) < 20 or any(pub.abstract is None for pub in pubs)`
\* reads pub.abstract only when the first two tests are false
AbstractTested(pubs) == ~(pubs = {} \/ Cardinality(pubs) < REFRESH_MIN)

\* the test of needs_refresh raises AttributeError
RefreshTestRaises(pubs) == AbstractTested(pubs) /\ "abstract" \notin PublicationAttributes

\* needs_refresh once its test has not raised: upsert_publications stores
\* no abstract, so any(pub.abstract is None ...) is true where it is tested
needs_refresh(pubs, is_offline) ==
    (pubs = {} \/ Cardinality(pubs) < REFRESH_MIN \/ AbstractTested(pubs)) /\ ~is_offline

\* ProfessorDetail(...) reads prof.biography, and pub.abstract of every
\* publication listed: AttributeError for an attribute the class lacks
ResponseRaises(pubs) ==
    \/ "biography" \notin ProfessorAttributes
    \/ pubs # {} /\ "abstract" \notin PublicationAttributes

DetailInit ==
    /\ d_exists \in BOOLEAN
    /\ d_offline \in BOOLEAN
    /\ d_rows \in StoredTitles
    /\ ~d_exists => d_rows = {}
    /\ d_log = <<>>
    /\ NameIdle /\ PubIdle /\ TagIdle /\ ResolveIdle /\ FetchIdle /\ MapIdle /\ ScoreIdle
    /\ SearchIdle /\ UpsertIdle

Logged(stored, fetched, how) == [stored |-> Cardinality(stored), fetched |-> fetched, outcome |-> how]

\* db.get finds no professor: HTTPException 404
DetailNotFound ==
    /\ Len(d_log) < MaxRequests
    /\ ~d_exists
    /\ d_log' = Append(d_log, Logged(d_rows, -1, "not_found"))
    /\ UNCHANGED <<d_exists, d_offline, d_rows, nameVars, pubVars, tagVars, resolveVars,
                   fetchVars, mapVars, scoreVars, searchVars, upsertVars>>

\* one request for a stored professor, with the commit or rollback of
\* get_session; fetched is what fetch_publications hands back if called
Detail(fetched) ==
    /\ Len(d_log) < MaxRequests
    /\ d_exists
    /\ IF RefreshTestRaises(d_rows)
       THEN /\ d_log' = Append(d_log, Logged(d_rows, -1, "raised"))
            /\ UNCHANGED d_rows
       ELSE LET refresh == needs_refresh(d_rows, d_offline)
                pubs == IF refresh THEN d_rows \cup fetched ELSE d_rows
                called == IF refresh THEN Cardinality(fetched) ELSE -1
            IN IF ResponseRaises(pubs)
               THEN /\ d_log' = Append(d_log, Logged(d_rows, called, "raised"))
                    /\ UNCHANGED d_rows
               ELSE /\ d_log' = Append(d_log, Logged(d_rows, called, "served"))
                    /\ d_rows' = pubs
    /\ UNCHANGED <<d_exists, d_offline, nameVars, pubVars, tagVars, resolveVars,
                   fetchVars, mapVars, scoreVars, searchVars, upsertVars>>

DetailNext ==
    \/ DetailNotFound
    \/ \E fetched \in FetchedTitles : Detail(fetched)

SpecDetail == DetailInit /\ [][DetailNext]_vars

\* C25: the refresh of professor_detail is not repeated forever: a request
\* that finds at least 20 publications stored, or that follows a request
\* whose refresh fetched at least 20 records, is served from the stored
\* data without a call of fetch_publications.
RefreshNotRepeated ==
    \A i \in 1..Len(d_log) :
        \/ d_log[i].stored >= REFRESH_MIN
        \/ i > 1 /\ d_log[i - 1].fetched >= REFRESH_MIN
        => d_log[i].outcome = "served" /\ d_log[i].fetched = -1

====
